---------------------------- MODULE Spec2Model ----------------------------
(***************************************************************************)
(* Flow recording, parameterisation and replay of browser-agent.           *)
(*                                                                         *)
(*   src/browser_agent.py     parameter extraction, substitution, replay   *)
(*   src/frontend/server.py   RecordingManager and the HTTP handlers       *)
(*   src/manual_recorder.py   conversion of captured events to a flow      *)
(*                                                                         *)
(* Python strings are modelled as sequences of one-character strings, so   *)
(* that lower(), split(), strip(), replace() and the `in` test are         *)
(* computed character by character as CPython computes them.  A Python     *)
(* dict is a sequence of <<key, value>> pairs in insertion order.          *)
(***************************************************************************)
EXTENDS Integers, Sequences, FiniteSets, TLC

VARIABLES
    \* the pure functions of browser_agent.py, applied to one input
    task,           \* argument of extract_parameters_from_task
    parameters,     \* the dict it returns
    epc,            \* "ready" before the call, "done" after it
    \* the flows directory
    store,          \* flow name -> file
    \* one run of a replay driver (browser_agent.py --replay-flow[-with-params])
    store0,         \* the flows directory when the driver was entered
    rpc,            \* "ready" before the run, "done" when the driver has returned
    rmode,          \* "literal" | "params"
    rname,          \* the flow name given
    rinputs,        \* the lines the caller typed at the prompts that were shown
    rout            \* the run's Outcome

extractVars == <<task, parameters, epc>>

replayVars == <<store0, rpc, rmode, rname, rinputs, rout>>

\* frontend/server.py: the RecordingManager, the threads that use it and the
\* browser_agent.py subprocesses it spawns
VARIABLES
    is_recording,       \* RecordingManager.is_recording
    current_flow_name,  \* RecordingManager.current_flow_name, NONE for None
    recording_process,  \* RecordingManager.recording_process: 0 for None, else
                        \* the subprocess (named by the request that started it)
    recording_thread,   \* RecordingManager.recording_thread, likewise
    req,                \* the HTTP request handler threads
    worker,             \* the _run_recording threads, one per accepted start
    proc                \* the browser_agent.py --save-flow subprocesses

rmVars == <<is_recording, current_flow_name, recording_process, recording_thread,
            req, worker, proc>>

\* extract_parameters_from_flow and substitute_parameters_in_task, each applied
\* to one input
VARIABLES
    xflow,          \* argument flow_data of extract_parameters_from_flow
    xout,           \* what it returns
    xpc,            \* "ready" before the call, "done" after it
    s_task,         \* argument original_task of substitute_parameters_in_task
    s_values,       \* argument param_values
    s_params,       \* argument original_params
    s_out,          \* the string it returns
    spc             \* "ready" before the call, "done" after it

callVars == <<xflow, xout, xpc, s_task, s_values, s_params, s_out, spc>>

\* manual_recorder.py: one ManualRecorder session
VARIABLES
    recording,      \* ManualRecorder.recording
    cdp_events,     \* ManualRecorder.cdp_events
    mname,          \* flow_name of the session
    mtask,          \* task_description of the session
    mpc,            \* "recording" until stop_recording has run, then "saved"
    pending,        \* the event callbacks the event loop has still to run
    delivered       \* the events the browser delivered while recording was set

manualVars == <<recording, cdp_events, mname, mtask, mpc, pending, delivered>>

\* the flows directory as the web server's flow routes see it
VARIABLES
    fstat,          \* flow name -> [born, mtime] of the file (0 when absent)
    clock,          \* the time of the file system
    listing,        \* the reply of the last GET /api/flows, with the directory
                    \* it was taken from
    dels            \* the DELETE /api/flows/<name> request handler threads

storeVars == <<fstat, clock, listing, dels>>

vars == <<task, parameters, epc, store, store0, rpc, rmode, rname, rinputs, rout,
          is_recording, current_flow_name, recording_process, recording_thread,
          req, worker, proc, xflow, xout, xpc, s_task, s_values, s_params, s_out,
          spc, recording, cdp_events, mname, mtask, mpc, pending, delivered,
          fstat, clock, listing, dels>>

\* no call of the two functions in progress
CallIdle ==
    /\ xflow = <<>>
    /\ xout = <<>>
    /\ xpc = "idle"
    /\ s_task = <<>>
    /\ s_values = <<>>
    /\ s_params = <<>>
    /\ s_out = <<>>
    /\ spc = "idle"

\* no manual recording session
ManualIdle ==
    /\ recording = FALSE
    /\ cdp_events = <<>>
    /\ mname = "none"
    /\ mtask = <<>>
    /\ mpc = "idle"
    /\ pending = <<>>
    /\ delivered = <<>>

---------------------------------------------------------------------------
(* Python str primitives *)

MinOf(S) == CHOOSE x \in S : \A y \in S : x <= y

MaxOf(S) == CHOOSE x \in S : \A y \in S : x >= y

UpperCase == <<"A","B","C","D","E","F","G","H","I","J","K","L","M",
               "N","O","P","Q","R","S","T","U","V","W","X","Y","Z">>

LowerCase == <<"a","b","c","d","e","f","g","h","i","j","k","l","m",
               "n","o","p","q","r","s","t","u","v","w","x","y","z">>

\* str.strip() with no argument removes these (ASCII whitespace)
Whitespace == {" ", "\t", "\n", "\r", "\f"}

LowerChar(c) ==
    IF \E i \in 1..Len(UpperCase) : UpperCase[i] = c
    THEN LowerCase[CHOOSE i \in 1..Len(UpperCase) : UpperCase[i] = c]
    ELSE c

\* str.lower()
Lower(s) == [i \in 1..Len(s) |-> LowerChar(s[i])]

\* str.find(p, i) with 1-based positions; 0 when p does not occur at or after i
Find(s, p, i) ==
    LET hits == {j \in i..(Len(s) - Len(p) + 1) : SubSeq(s, j, j + Len(p) - 1) = p}
    IN  IF hits = {} THEN 0 ELSE MinOf(hits)

\* p in s
Contains(s, p) == Find(s, p, 1) # 0

StartsWith(s, p) == Len(p) <= Len(s) /\ SubSeq(s, 1, Len(p)) = p

EndsWith(s, p) == Len(p) <= Len(s) /\ SubSeq(s, Len(s) - Len(p) + 1, Len(s)) = p

\* str.strip()
Strip(s) ==
    LET keep == {i \in 1..Len(s) : s[i] \notin Whitespace}
    IN  IF keep = {} THEN <<>> ELSE SubSeq(s, MinOf(keep), MaxOf(keep))

RECURSIVE SplitFrom(_, _, _)
SplitFrom(s, sep, i) ==
    LET j == Find(s, sep, i)
    IN  IF j = 0
        THEN <<SubSeq(s, i, Len(s))>>
        ELSE <<SubSeq(s, i, j - 1)>> \o SplitFrom(s, sep, j + Len(sep))

\* str.split(sep) for a non-empty separator
Split(s, sep) == SplitFrom(s, sep, 1)

RECURSIVE ReplaceFrom(_, _, _, _)
ReplaceFrom(s, old, new, i) ==
    LET j == Find(s, old, i)
    IN  IF j = 0
        THEN SubSeq(s, i, Len(s))
        ELSE SubSeq(s, i, j - 1) \o new \o ReplaceFrom(s, old, new, j + Len(old))

RECURSIVE Interleave(_, _, _)
Interleave(s, new, i) ==
    IF i > Len(s) THEN new ELSE new \o <<s[i]>> \o Interleave(s, new, i + 1)

\* str.replace(old, new): every non-overlapping occurrence, left to right;
\* an empty old matches before every character and at the end
Replace(s, old, new) ==
    IF old = <<>> THEN Interleave(s, new, 1) ELSE ReplaceFrom(s, old, new, 1)

---------------------------------------------------------------------------
(* Python dict, insertion ordered *)

DictHas(d, k) == \E i \in 1..Len(d) : d[i][1] = k

DictGet(d, k) == d[CHOOSE i \in 1..Len(d) : d[i][1] = k][2]

DictSet(d, k, v) ==
    IF DictHas(d, k)
    THEN [i \in 1..Len(d) |-> IF d[i][1] = k THEN <<k, v>> ELSE d[i]]
    ELSE Append(d, <<k, v>>)

DictKeys(d) == {d[i][1] : i \in 1..Len(d)}

---------------------------------------------------------------------------
(* Literals of src/browser_agent.py *)

websites == << <<"g","o","o","g","l","e",".","c","o","m">>,
               <<"b","i","n","g",".","c","o","m">>,
               <<"g","i","t","h","u","b",".","c","o","m">>,
               <<"e","x","a","m","p","l","e",".","c","o","m">>,
               <<"y","o","u","t","u","b","e",".","c","o","m">> >>

SEARCH_FOR == <<"s","e","a","r","c","h"," ","f","o","r">>

ON_GOOGLE == <<" ","o","n"," ","g","o","o","g","l","e">>

ON_BING == <<" ","o","n"," ","b","i","n","g">>

---------------------------------------------------------------------------
(* Strategy A *)

extract_parameters_from_task(t) ==
    LET task_lower == Lower(t)
        found == {i \in 1..Len(websites) : Contains(task_lower, websites[i])}
        p1 == IF found = {} THEN <<>>
              ELSE DictSet(<<>>, "website", websites[MinOf(found)])
        parts == Split(t, SEARCH_FOR)
    IN  IF Contains(task_lower, SEARCH_FOR) /\ Len(parts) > 1
        THEN DictSet(p1, "search_term",
                     Replace(Replace(Strip(parts[2]), ON_GOOGLE, <<>>), ON_BING, <<>>))
        ELSE p1

---------------------------------------------------------------------------
(* Flow documents.  A file of the flows directory is                       *)
(*   [kind |-> "absent"]      no file                                      *)
(*   [kind |-> "invalid"]     bytes that json.load rejects                 *)
(*   [kind |-> "truncated"]   a proper prefix of a dumped flow, which       *)
(*                            json.load rejects as well                    *)
(*   [kind |-> "nonobject"]   valid JSON that is not an object             *)
(*   [kind |-> "object", original_user_task |-> opt, history |-> opt]      *)
(* An optional field is <<>> when the key is absent or null and <<v>> when *)
(* it holds v.  A step is [model_output |-> mo], mo being                  *)
(* [tag |-> "absent"], [tag |-> "null"] (browser-use dumps a step without  *)
(* model output so) or [tag |-> "obj", thinking |-> opt, action |-> seq];  *)
(* an action is [type |-> name, params |-> dict].                          *)

SCHEME_SEP == <<":","/","/">>

SLASH == <<"/">>

WWW_DOT == <<"w","w","w",".">>

\* dict.get(key) / dict.get(key, default) on an optional field
Truthy(opt) == opt # <<>> /\ opt[1] # <<>>

\* a scan in which the first go_to_url wins
ScanAction_FirstWins(params, action) ==
    LET ap == action.params
        url == DictGet(ap, "url")
        domain == Split(Split(url, SCHEME_SEP)[2], SLASH)[1]
        p1 == IF /\ action.type = "go_to_url" /\ DictHas(ap, "url")
                 /\ Contains(url, SCHEME_SEP) /\ ~DictHas(params, "website")
              THEN DictSet(params, "website",
                           IF ~StartsWith(domain, WWW_DOT) THEN domain
                           ELSE SubSeq(domain, 5, Len(domain)))
              ELSE params
        text == DictGet(ap, "text")
    IN  IF action.type = "input_text" /\ DictHas(ap, "text") /\ Len(Strip(text)) > 0
        THEN DictSet(p1, "search_term", text)
        ELSE p1

\* one ActionInvocation of Strategy B, lines 76-92
ScanAction(params, action) ==
    LET ap == action.params
        url == DictGet(ap, "url")
        domain == Split(Split(url, SCHEME_SEP)[2], SLASH)[1]
        p1 == IF action.type = "go_to_url" /\ DictHas(ap, "url") /\ Contains(url, SCHEME_SEP)
              THEN DictSet(params, "website",
                           IF ~StartsWith(domain, WWW_DOT) THEN domain
                           ELSE SubSeq(domain, 5, Len(domain)))
              ELSE params
        text == DictGet(ap, "text")
    IN  IF action.type = "input_text" /\ DictHas(ap, "text") /\ Len(Strip(text)) > 0
        THEN DictSet(p1, "search_term", text)
        ELSE p1

RECURSIVE ScanActions(_, _, _)
ScanActions(params, actions, i) ==
    IF i > Len(actions) THEN params
    ELSE ScanActions(ScanAction(params, actions[i]), actions, i + 1)

\* step.get("model_output", {}).get("action", [])
ActionsOf(step) ==
    IF step.model_output.tag = "obj" THEN step.model_output.action ELSE <<>>

RECURSIVE ScanSteps(_, _, _)
ScanSteps(params, history, i) ==
    IF i > Len(history) THEN params
    ELSE ScanSteps(ScanActions(params, ActionsOf(history[i]), 1), history, i + 1)

\* None.get(...) raises AttributeError
StepRaises(step) == step.model_output.tag = "null"

HistoryOf(flow_data) ==
    IF flow_data.history = <<>> THEN <<>> ELSE flow_data.history[1]

\* an extractor that runs Strategy B on top of what Strategy A found
extract_parameters_from_flow_Merged(flow_data) ==
    LET original_task == flow_data.original_user_task
        a == IF Truthy(original_task)
             THEN extract_parameters_from_task(original_task[1]) ELSE <<>>
        history == HistoryOf(flow_data)
    IN  IF \E i \in 1..Len(history) : StepRaises(history[i])
        THEN [raised |-> TRUE]
        ELSE [raised |-> FALSE, parameters |-> ScanSteps(a, history, 1)]

\* Strategy A first, then Strategy B.  The result is
\* [raised |-> TRUE] or [raised |-> FALSE, parameters |-> dict].
extract_parameters_from_flow(flow_data) ==
    LET original_task == flow_data.original_user_task
        a == IF Truthy(original_task)
             THEN extract_parameters_from_task(original_task[1]) ELSE <<>>
        history == HistoryOf(flow_data)
    IN  IF a # <<>> THEN [raised |-> FALSE, parameters |-> a]
        ELSE IF \E i \in 1..Len(history) : StepRaises(history[i])
        THEN [raised |-> TRUE]
        ELSE [raised |-> FALSE, parameters |-> ScanSteps(<<>>, history, 1)]

---------------------------------------------------------------------------
(* Task Substitution Engine *)

\* str.replace(old, new, 1)
ReplaceFirst(s, old, new) ==
    IF Find(s, old, 1) = 0 THEN s
    ELSE SubSeq(s, 1, Find(s, old, 1) - 1) \o new
         \o SubSeq(s, Find(s, old, 1) + Len(old), Len(s))

\* an iteration that matches without regard to case, by lower-casing the task
SubstituteOne_LowerCased(new_task, param_name, new_value, original_params) ==
    IF param_name \in {"website", "search_term"} /\ DictHas(original_params, param_name)
    THEN Replace(Lower(new_task), DictGet(original_params, param_name), new_value)
    ELSE new_task

\* an iteration that replaces the first occurrence only
SubstituteOne_FirstOnly(new_task, param_name, new_value, original_params) ==
    IF param_name \in {"website", "search_term"} /\ DictHas(original_params, param_name)
    THEN ReplaceFirst(new_task, DictGet(original_params, param_name), new_value)
    ELSE new_task

\* an iteration that takes every name but website for the search term
SubstituteOne_ElseBranch(new_task, param_name, new_value, original_params) ==
    IF param_name = "website" /\ DictHas(original_params, param_name)
    THEN Replace(new_task, DictGet(original_params, param_name), new_value)
    ELSE IF DictHas(original_params, "search_term")
    THEN Replace(new_task, DictGet(original_params, "search_term"), new_value)
    ELSE new_task

\* one iteration of the loop of lines 101-109
SubstituteOne(new_task, param_name, new_value, original_params) ==
    IF param_name = "website" /\ DictHas(original_params, param_name)
    THEN Replace(new_task, DictGet(original_params, param_name), new_value)
    ELSE IF param_name = "search_term" /\ DictHas(original_params, param_name)
    THEN Replace(new_task, DictGet(original_params, param_name), new_value)
    ELSE new_task

RECURSIVE SubstituteFrom(_, _, _, _)
SubstituteFrom(new_task, param_values, original_params, i) ==
    IF i > Len(param_values) THEN new_task
    ELSE SubstituteFrom(
             SubstituteOne(new_task, param_values[i][1], param_values[i][2],
                           original_params),
             param_values, original_params, i + 1)

substitute_parameters_in_task(original_task, param_values, original_params) ==
    SubstituteFrom(original_task, param_values, original_params, 1)

---------------------------------------------------------------------------
(* Flow Replay Driver.  A run of either driver is summarised by what it    *)
(* reported, the task the Agent was constructed with (optional), how often *)
(* agent.run() was awaited, and, for the parameterised driver, the         *)
(* extracted parameters, the number of input() calls and the value set     *)
(* handed to the substitution (both optional).                             *)

REPLAY_PREFIX == <<"R","e","p","l","a","y"," ","t","h","i","s"," ",
                   "f","l","o","w",":"," ">>

PLACEHOLDER == <<"R","e","p","l","a","y"," ","s","a","v","e","d"," ",
                 "f","l","o","w">>

\* what input() gives at end of input: it raises EOFError
EOF == <<"EOF">>

Outcome(rep, atask, runs, params, nasked, values) ==
    [report |-> rep, agent_task |-> atask, agent_runs |-> runs,
     parameters |-> params, solicited |-> nasked, param_values |-> values]

\* flow_path.exists()
FlowExists(st, flow_name) == st[flow_name].kind # "absent"

\* a driver whose only except clause is the one for json.JSONDecodeError
LoadFlow_JSONDecodeErrorOnly(doc) ==
    CASE doc.kind = "object" -> "ok"
      [] doc.kind \in {"invalid", "truncated"} -> "invalid_json"
      [] OTHER -> "uncaught"

\* open() and json.load(): "ok", or the except clause that catches the failure
LoadFlow(doc) ==
    CASE doc.kind = "object" -> "ok"
      [] doc.kind \in {"invalid", "truncated"} -> "invalid_json"
      [] OTHER -> "exception"

\* a driver without the history check
NoHistory_Skipped(history) == FALSE

\* `if not history`
NoHistory(history) == history = <<>>

\* history[0].get("model_output", {}).get("thinking", "Replay saved flow")
FirstStepThinking(history) ==
    IF Len(history) = 0 \/ StepRaises(history[1]) THEN [raised |-> TRUE]
    ELSE LET mo == history[1].model_output
         IN  [raised |-> FALSE,
              value |-> IF mo.tag = "obj" /\ mo.thinking # <<>>
                        THEN mo.thinking[1] ELSE PLACEHOLDER]

\* the task the literal driver gives the Agent, lines 237-243
LiteralTask(flow_data) == REPLAY_PREFIX \o FirstStepThinking(HistoryOf(flow_data)).value

\* agent.run(): run is "ok" or "raise"
AgentRun(atask, run, params, nasked, values) ==
    Outcome(IF run = "raise" THEN "exception" ELSE "none",
            <<atask>>, 1, params, nasked, values)

replay_flow(st, flow_name, run) ==
    LET doc == st[flow_name]
        history == HistoryOf(doc)
    IN  IF ~FlowExists(st, flow_name)
        THEN Outcome("not_found", <<>>, 0, <<>>, 0, <<>>)
        ELSE IF LoadFlow(doc) # "ok"
        THEN Outcome(LoadFlow(doc), <<>>, 0, <<>>, 0, <<>>)
        ELSE IF NoHistory(history)
        THEN Outcome("no_history", <<>>, 0, <<>>, 0, <<>>)
        ELSE IF FirstStepThinking(history).raised
        THEN Outcome("exception", <<>>, 0, <<>>, 0, <<>>)
        ELSE IF \E i \in 1..Len(history) : StepRaises(history[i])
        THEN Outcome("exception", <<LiteralTask(doc)>>, 0, <<>>, 0, <<>>)
        ELSE AgentRun(LiteralTask(doc), run, <<>>, 0, <<>>)

\* a loop without the default: what was typed is used even when it is blank
Solicit_NoDefault(params, inputs) ==
    [i \in 1..Len(params) |-> <<params[i][1], Strip(inputs[i])>>]

\* lines 155-164: one input() per parameter, in dict order
Solicit(params, inputs) ==
    [i \in 1..Len(params) |->
        <<params[i][1],
          IF Strip(inputs[i]) # <<>> THEN Strip(inputs[i]) ELSE params[i][2]>>]

\* the number of input() calls made: all of them, or up to the one that raises
Asked(params, inputs) ==
    LET eof == {i \in 1..Len(params) : inputs[i] = EOF}
    IN  IF eof = {} THEN Len(params) ELSE MinOf(eof)

\* a driver without the check of line 148
NoParameters_Skipped(params) == FALSE

\* `if not parameters`
NoParameters(params) == params = <<>>

replay_flow_with_params(st, flow_name, inputs, run) ==
    LET doc == st[flow_name]
        history == HistoryOf(doc)
        fallback == ~Truthy(doc.original_user_task)
        original_task == IF fallback THEN FirstStepThinking(history).value
                         ELSE doc.original_user_task[1]
        ex == extract_parameters_from_flow(doc)
        nasked == Asked(ex.parameters, inputs)
        values == Solicit(ex.parameters, inputs)
    IN  IF ~FlowExists(st, flow_name)
        THEN Outcome("not_found", <<>>, 0, <<>>, 0, <<>>)
        ELSE IF LoadFlow(doc) # "ok"
        THEN Outcome(LoadFlow(doc), <<>>, 0, <<>>, 0, <<>>)
        ELSE IF NoHistory(history)
        THEN Outcome("no_history", <<>>, 0, <<>>, 0, <<>>)
        ELSE IF (fallback /\ FirstStepThinking(history).raised) \/ ex.raised
        THEN Outcome("exception", <<>>, 0, <<>>, 0, <<>>)
        ELSE IF NoParameters(ex.parameters)
        THEN Outcome("no_params", <<>>, 0, <<ex.parameters>>, 0, <<>>)
        ELSE IF \E i \in 1..Len(ex.parameters) : inputs[i] = EOF
        THEN Outcome("exception", <<>>, 0, <<ex.parameters>>, nasked, <<>>)
        ELSE AgentRun(substitute_parameters_in_task(original_task, values, ex.parameters),
                      run, <<ex.parameters>>, nasked, <<values>>)

---------------------------------------------------------------------------
(* Flow documents and caller inputs the drivers are exercised on *)

FlowNames == {"demo", "other"}

TASK_CATS == <<"s","e","a","r","c","h"," ","f","o","r"," ",
               "c","a","t","s"," ","o","n"," ","g","o","o","g","l","e",".","c","o","m">>

TASK_GO == <<"g","o"," ","t","o"," ","G","o","o","g","l","e",".","c","o","m">>

TASK_OPEN == <<"o","p","e","n"," ","i","t">>

THINKING == <<"I"," ","s","e","a","r","c","h">>

URL_BING == <<"h","t","t","p","s",":","/","/","w","w","w",".",
              "b","i","n","g",".","c","o","m","/","q">>

DOGS == <<"d","o","g","s">>

StepObj(thinking, action) ==
    [model_output |-> [tag |-> "obj", thinking |-> thinking, action |-> action]]

StepNull == [model_output |-> [tag |-> "null"]]

StepBare == [model_output |-> [tag |-> "absent"]]

GoToUrl(url) == [type |-> "go_to_url", params |-> <<<<"url", url>>>>]

InputText(text) == [type |-> "input_text", params |-> <<<<"text", text>>>>]

Click == [type |-> "click_element_by_index", params |-> <<>>]

\* the optional original_user_task of the documents
OriginalTasks == {<<>>, << <<>> >>, <<TASK_CATS>>, <<TASK_GO>>, <<TASK_OPEN>>}

\* the optional history of the documents
Histories ==
    {<<>>,
     << <<>> >>,
     << <<StepObj(<<THINKING>>, <<GoToUrl(URL_BING), InputText(DOGS)>>)>> >>,
     << <<StepObj(<<>>, <<Click>>)>> >>,
     << <<StepNull>> >>,
     << <<StepBare, StepObj(<<THINKING>>, <<InputText(DOGS)>>), StepNull>> >>}

Docs ==
    {[kind |-> "absent"], [kind |-> "invalid"], [kind |-> "truncated"],
     [kind |-> "nonobject"]}
    \cup {[kind |-> "object", original_user_task |-> t, history |-> h] :
             t \in OriginalTasks, h \in Histories}

\* what the caller types at a prompt: nothing, blanks, a value, or end of input
UserInputs == {<<>>, <<" ">>, <<" ","d","o","g","s"," ">>, EOF}

---------------------------------------------------------------------------
(* frontend/server.py: RecordingManager.  The Flask development server     *)
(* handles each request on a thread of its own, and _run_recording runs on *)
(* a further thread, so every statement that reads or writes an attribute  *)
(* of the manager is a step of its thread.  A worker thread and the        *)
(* subprocess it spawns carry the number of the request that started them. *)

MaxRequests == 2

Reqs == 1..MaxRequests

NONE == "None"

\* the flow names and
\* the task descriptions posted to /api/start-recording
RecNames == {"demo"}

RecTasks == {TASK_CATS}

\* what agent.run() hands back as the history of a recording run
RESULT_HISTORY == <<StepObj(<<THINKING>>, <<GoToUrl(URL_BING), InputText(DOGS)>>)>>

ReqIdle ==
    [op |-> "none", pc |-> "idle", flow_name |-> NONE, task |-> <<>>,
     result |-> "none", target |-> 0]

WorkerUnborn == [pc |-> "unborn", flow_name |-> NONE, task |-> <<>>, target |-> 0]

\* agent: whether agent.run() has returned a result or raised in this run
ProcUnborn ==
    [pc |-> "unborn", flow_name |-> NONE, task |-> <<>>, termed |-> FALSE,
     agent |-> "none"]

\* Popen.poll() is None
ProcAlive(p) == proc[p].pc \notin {"unborn", "exited", "killed"}

RMIdle ==
    /\ is_recording = FALSE
    /\ current_flow_name = NONE
    /\ recording_process = 0
    /\ recording_thread = 0
    /\ req = [r \in Reqs |-> ReqIdle]
    /\ worker = [r \in Reqs |-> WorkerUnborn]
    /\ proc = [r \in Reqs |-> ProcUnborn]

Finish(r, result) == [req EXCEPT ![r].pc = "done", ![r].result = result]

Goto(r, pc) == [req EXCEPT ![r].pc = pc]

\* requests are numbered in their order of arrival
Arrives(r) == req[r].pc = "idle" /\ \A q \in 1..(r - 1) : req[q].pc # "idle"

\* a manager without the check of line 36
AlreadyRecording_Never(flag) == FALSE

\* line 36: `if self.is_recording`
AlreadyRecording(flag) == flag

\* POST /api/start-recording, lines 120-132, and start_recording, lines 36-37.
\* A blank name or description is answered 400 before the manager is called;
\* otherwise the manager's first statement reads is_recording.
HandleStartRecording(r) ==
    /\ Arrives(r)
    /\ \E flow_name \in RecNames \cup {""}, task_description \in RecTasks :
          req' = [req EXCEPT ![r] =
                     IF flow_name = ""
                     THEN [@ EXCEPT !.op = "start", !.pc = "done",
                                    !.result = "bad_request"]
                     ELSE [@ EXCEPT !.op = "start",
                                    !.flow_name = flow_name,
                                    !.task = task_description,
                                    !.pc = IF AlreadyRecording(is_recording)
                                           THEN "done" ELSE "sr_flag",
                                    !.result = IF AlreadyRecording(is_recording)
                                               THEN "already_recording" ELSE "none"]]
    /\ UNCHANGED <<is_recording, current_flow_name, recording_process,
                   recording_thread, worker, proc, store>>
    /\ UNCHANGED <<extractVars, replayVars, callVars, manualVars, storeVars>>

\* start_recording, line 39
StartSetFlag(r) ==
    /\ req[r].pc = "sr_flag"
    /\ is_recording' = TRUE
    /\ req' = Goto(r, "sr_name")
    /\ UNCHANGED <<current_flow_name, recording_process, recording_thread,
                   worker, proc, store>>
    /\ UNCHANGED <<extractVars, replayVars, callVars, manualVars, storeVars>>

\* start_recording, line 40
StartSetName(r) ==
    /\ req[r].pc = "sr_name"
    /\ current_flow_name' = req[r].flow_name
    /\ req' = Goto(r, "sr_thread")
    /\ UNCHANGED <<is_recording, recording_process, recording_thread,
                   worker, proc, store>>
    /\ UNCHANGED <<extractVars, replayVars, callVars, manualVars, storeVars>>

\* start_recording, lines 43-49: the thread is created and started
StartThread(r) ==
    /\ req[r].pc = "sr_thread"
    /\ recording_thread' = r
    /\ worker' = [worker EXCEPT ![r] =
                     [pc |-> "popen", flow_name |-> req[r].flow_name,
                      task |-> req[r].task, target |-> 0]]
    /\ req' = Finish(r, "started")
    /\ UNCHANGED <<is_recording, current_flow_name, recording_process, proc, store>>
    /\ UNCHANGED <<extractVars, replayVars, callVars, manualVars, storeVars>>

\* _run_recording, lines 60-67: Popen spawns the subprocess, which runs up to
\* its first input(), and the result is stored in the attribute; or Popen
\* raises and control passes to `finally`
WorkerPopen(w) ==
    /\ worker[w].pc = "popen"
    /\ \E spawned \in BOOLEAN :
          IF spawned
          THEN /\ recording_process' = w
               /\ proc' = [proc EXCEPT ![w] =
                              [pc |-> "input", flow_name |-> worker[w].flow_name,
                               task |-> <<>>, termed |-> FALSE, agent |-> "none"]]
               /\ worker' = [worker EXCEPT ![w].pc = "communicate"]
          ELSE /\ worker' = [worker EXCEPT ![w].pc = "finally"]
               /\ UNCHANGED <<recording_process, proc>>
    /\ UNCHANGED <<is_recording, current_flow_name, recording_thread, req, store>>
    /\ UNCHANGED <<extractVars, replayVars, callVars, manualVars, storeVars>>

\* _run_recording, line 70: the attribute is read again; on None the call
\* raises AttributeError, else the task is written to that process's stdin
WorkerCommunicate(w) ==
    /\ worker[w].pc = "communicate"
    /\ worker' = IF recording_process = 0
                 THEN [worker EXCEPT ![w].pc = "finally"]
                 ELSE [worker EXCEPT ![w].pc = "waiting",
                                     ![w].target = recording_process]
    /\ UNCHANGED <<is_recording, current_flow_name, recording_process,
                   recording_thread, req, proc, store>>
    /\ UNCHANGED <<extractVars, replayVars, callVars, manualVars, storeVars>>

\* _run_recording, lines 70-76: communicate() returns once the process has ended
WorkerReap(w) ==
    /\ worker[w].pc = "waiting"
    /\ ~ProcAlive(worker[w].target)
    /\ worker' = [worker EXCEPT ![w].pc = "finally"]
    /\ UNCHANGED <<is_recording, current_flow_name, recording_process,
                   recording_thread, req, proc, store>>
    /\ UNCHANGED <<extractVars, replayVars, callVars, manualVars, storeVars>>

\* a cleanup that leaves the flag as it is
WorkerFinallyFlag_Kept(w) ==
    /\ worker[w].pc = "finally"
    /\ worker' = [worker EXCEPT ![w].pc = "finally2"]
    /\ UNCHANGED <<is_recording, current_flow_name, recording_process,
                   recording_thread, req, proc, store>>
    /\ UNCHANGED <<extractVars, replayVars, callVars, manualVars, storeVars>>

\* _run_recording, line 81
WorkerFinallyFlag(w) ==
    /\ worker[w].pc = "finally"
    /\ is_recording' = FALSE
    /\ worker' = [worker EXCEPT ![w].pc = "finally2"]
    /\ UNCHANGED <<current_flow_name, recording_process, recording_thread,
                   req, proc, store>>
    /\ UNCHANGED <<extractVars, replayVars, callVars, manualVars, storeVars>>

\* _run_recording, line 82
WorkerFinallyProc(w) ==
    /\ worker[w].pc = "finally2"
    /\ recording_process' = 0
    /\ worker' = [worker EXCEPT ![w].pc = "done"]
    /\ UNCHANGED <<is_recording, current_flow_name, recording_thread,
                   req, proc, store>>
    /\ UNCHANGED <<extractVars, replayVars, callVars, manualVars, storeVars>>

---------------------------------------------------------------------------
(* browser_agent.py --save-flow NAME, as the subprocess of a recording *)

\* the document main() dumps: result.model_dump() plus original_user_task
\* a run that records the task without its surrounding whitespace
PromptOf_Stripped(task_prompt) == Strip(task_prompt)

\* main, line 329: prompt = task_prompt
PromptOf(task_prompt) == task_prompt

\* main, lines 380-382: result.model_dump() with original_user_task added
RecordedFlow(prompt) ==
    [kind |-> "object", original_user_task |-> <<prompt>>,
     history |-> <<RESULT_HISTORY>>]

\* the process is at pc and no signal is pending: once SIGTERM has been sent
\* the process executes no further statement
ProcAt(p, pc) == proc[p].pc = pc /\ ~proc[p].termed

\* main, lines 309-313: without ANTHROPIC_API_KEY the process ends before
\* it reads its input
ProcNoApiKey(p) ==
    /\ ProcAt(p, "input")
    /\ proc' = [proc EXCEPT ![p].pc = "exited"]
    /\ UNCHANGED <<is_recording, current_flow_name, recording_process,
                   recording_thread, req, worker, store>>
    /\ UNCHANGED <<extractVars, replayVars, callVars, manualVars, storeVars>>

\* main, line 325: input() returns the line a communicate() call has written
ProcInput(p) ==
    /\ ProcAt(p, "input")
    /\ \E w \in Reqs :
          /\ worker[w].pc = "waiting" /\ worker[w].target = p
          /\ proc' = [proc EXCEPT ![p].pc = "agent", ![p].task = <<worker[w].task>>]
    /\ UNCHANGED <<is_recording, current_flow_name, recording_process,
                   recording_thread, req, worker, store>>
    /\ UNCHANGED <<extractVars, replayVars, callVars, manualVars, storeVars>>

\* main, line 325: the Popen object is referenced no more, its pipes are
\* closed, and input() raises EOFError outside the try block
ProcInputEOF(p) ==
    /\ ProcAt(p, "input")
    /\ recording_process # p
    /\ \A w \in Reqs : ~(worker[w].pc = "waiting" /\ worker[w].target = p)
    /\ proc' = [proc EXCEPT ![p].pc = "exited"]
    /\ UNCHANGED <<is_recording, current_flow_name, recording_process,
                   recording_thread, req, worker, store>>
    /\ UNCHANGED <<extractVars, replayVars, callVars, manualVars, storeVars>>

\* main, line 367: agent.run() returns a result, or raises and the handler of
\* line 410 ends the run
ProcAgent(p) ==
    /\ ProcAt(p, "agent")
    /\ \E returned \in BOOLEAN :
          proc' = [proc EXCEPT ![p].pc = IF returned THEN "open" ELSE "exited",
                               ![p].agent = IF returned THEN "returned" ELSE "raised"]
    /\ UNCHANGED <<is_recording, current_flow_name, recording_process,
                   recording_thread, req, worker, store>>
    /\ UNCHANGED <<extractVars, replayVars, callVars, manualVars, storeVars>>

\* main, lines 372-385: open(flow_path, 'w') creates or empties the file
ProcOpen(p) ==
    /\ ProcAt(p, "open")
    /\ store' = [store EXCEPT ![proc[p].flow_name] = [kind |-> "truncated"]]
    /\ proc' = [proc EXCEPT ![p].pc = "dump"]
    /\ UNCHANGED <<is_recording, current_flow_name, recording_process,
                   recording_thread, req, worker>>
    /\ UNCHANGED <<extractVars, replayVars, callVars, manualVars, storeVars>>

\* main, lines 386-415: json.dump writes the document and the file is closed.
\* The run then ends: the input() of line 394 finds stdin at end of input and
\* raises EOFError, which the handler of line 410 catches.
ProcDump(p) ==
    /\ ProcAt(p, "dump")
    /\ store' = [store EXCEPT ![proc[p].flow_name] =
                    RecordedFlow(PromptOf(proc[p].task[1]))]
    /\ proc' = [proc EXCEPT ![p].pc = "exited"]
    /\ UNCHANGED <<is_recording, current_flow_name, recording_process,
                   recording_thread, req, worker>>
    /\ UNCHANGED <<extractVars, replayVars, callVars, manualVars, storeVars>>

\* SIGTERM is delivered: the process ends wherever it is (a process that is
\* not scheduled in time stays, and wait(timeout=10) expires)
ProcDie(p) ==
    /\ ProcAlive(p)
    /\ proc[p].termed
    /\ proc' = [proc EXCEPT ![p].pc = "killed"]
    /\ UNCHANGED <<is_recording, current_flow_name, recording_process,
                   recording_thread, req, worker, store>>
    /\ UNCHANGED <<extractVars, replayVars, callVars, manualVars, storeVars>>

---------------------------------------------------------------------------
(* RecordingManager.stop_recording.  Every `self.recording_process` reads  *)
(* the attribute anew; a call on None raises AttributeError, which no      *)
(* handler of stop_recording catches, and the request is answered 500.     *)

\* POST /api/stop-recording, line 141, and stop_recording, lines 85-86:
\* `if not self.is_recording`.  target remembers the recording that was the
\* latest one when the call was accepted.
HandleStopRecording(r) ==
    /\ Arrives(r)
    /\ req' = [req EXCEPT ![r] =
                  IF ~is_recording
                  THEN [@ EXCEPT !.op = "stop", !.pc = "done",
                                 !.result = "not_recording"]
                  ELSE [@ EXCEPT !.op = "stop", !.pc = "st_ifproc",
                                 !.target = recording_thread]]
    /\ UNCHANGED <<is_recording, current_flow_name, recording_process,
                   recording_thread, worker, proc, store>>
    /\ UNCHANGED <<extractVars, replayVars, callVars, manualVars, storeVars>>

\* line 88: `if self.recording_process`
StopIfProcess(r) ==
    /\ req[r].pc = "st_ifproc"
    /\ req' = Goto(r, IF recording_process = 0 THEN "st_flag" ELSE "st_terminate")
    /\ UNCHANGED <<is_recording, current_flow_name, recording_process,
                   recording_thread, worker, proc, store>>
    /\ UNCHANGED <<extractVars, replayVars, callVars, manualVars, storeVars>>

\* line 90: terminate() sends SIGTERM to a process that has not ended
StopTerminate(r) ==
    /\ req[r].pc = "st_terminate"
    /\ IF recording_process = 0
       THEN /\ req' = Finish(r, "raised")
            /\ UNCHANGED proc
       ELSE /\ req' = Goto(r, "st_wait")
            /\ proc' = [proc EXCEPT ![recording_process].termed =
                           @ \/ ProcAlive(recording_process)]
    /\ UNCHANGED <<is_recording, current_flow_name, recording_process,
                   recording_thread, worker, store>>
    /\ UNCHANGED <<extractVars, replayVars, callVars, manualVars, storeVars>>

\* line 91: wait(timeout=10) returns once the process has ended; while it has
\* not, the timeout may expire (TimeoutExpired)
StopWait(r) ==
    /\ req[r].pc = "st_wait"
    /\ req' = IF recording_process = 0 THEN Finish(r, "raised")
              ELSE IF ProcAlive(recording_process) THEN Goto(r, "st_kill")
              ELSE Goto(r, "st_flag")
    /\ UNCHANGED <<is_recording, current_flow_name, recording_process,
                   recording_thread, worker, proc, store>>
    /\ UNCHANGED <<extractVars, replayVars, callVars, manualVars, storeVars>>

\* line 93: kill() sends SIGKILL, which ends the process
StopKill(r) ==
    /\ req[r].pc = "st_kill"
    /\ IF recording_process = 0
       THEN /\ req' = Finish(r, "raised")
            /\ UNCHANGED proc
       ELSE /\ req' = Goto(r, "st_flag")
            /\ proc' = [proc EXCEPT ![recording_process].pc =
                           IF ProcAlive(recording_process) THEN "killed" ELSE @]
    /\ UNCHANGED <<is_recording, current_flow_name, recording_process,
                   recording_thread, worker, store>>
    /\ UNCHANGED <<extractVars, replayVars, callVars, manualVars, storeVars>>

\* line 95
StopClearFlag(r) ==
    /\ req[r].pc = "st_flag"
    /\ is_recording' = FALSE
    /\ req' = Goto(r, "st_name")
    /\ UNCHANGED <<current_flow_name, recording_process, recording_thread,
                   worker, proc, store>>
    /\ UNCHANGED <<extractVars, replayVars, callVars, manualVars, storeVars>>

\* lines 96-99: the name is cleared and (True, "Recording stopped: ...") returned
StopClearName(r) ==
    /\ req[r].pc = "st_name"
    /\ current_flow_name' = NONE
    /\ req' = Finish(r, "stopped")
    /\ UNCHANGED <<is_recording, recording_process, recording_thread,
                   worker, proc, store>>
    /\ UNCHANGED <<extractVars, replayVars, callVars, manualVars, storeVars>>

---------------------------------------------------------------------------
(* frontend/server.py: the flow routes, and the saves that fill the flows  *)
(* directory.  A file has the time of its creation (born) and the time of  *)
(* its last write (mtime, what stat().st_mtime gives); open(path, 'w') on  *)
(* an existing file keeps the former and renews the latter.  The size of a *)
(* summary is left out: no route reads it.                                 *)

MaxClock == 3

\* the threads that handle DELETE /api/flows/<name>, one request each
Deleters == {"d1", "d2"}

NoStat == [born |-> 0, mtime |-> 0]

NoListing == [taken |-> FALSE]

DelIdle == [pc |-> "idle", flow_name |-> NONE, status |-> 0]

StoreIdle ==
    /\ fstat = [n \in FlowNames |-> NoStat]
    /\ clock = 1
    /\ listing = NoListing
    /\ dels = [d \in Deleters |-> DelIdle]

\* the documents a save writes
SavedDocs ==
    {[kind |-> "object", original_user_task |-> <<TASK_OPEN>>,
      history |-> << <<StepObj(<<>>, <<Click>>)>> >>],
     [kind |-> "invalid"]}

\* browser_agent.py lines 372-386, manual_recorder.py lines 150-156:
\* open(flow_path, 'w') and json.dump
SaveFlow ==
    /\ \E flow_name \in FlowNames, doc \in SavedDocs :
        /\ store' = [store EXCEPT ![flow_name] = doc]
        /\ fstat' = [fstat EXCEPT ![flow_name] =
                        [born |-> IF store[flow_name].kind = "absent" THEN clock
                                  ELSE fstat[flow_name].born,
                         mtime |-> clock]]
    /\ listing' = NoListing
    /\ UNCHANGED <<clock, dels, extractVars, replayVars, rmVars, callVars, manualVars>>

\* time passes
Tick ==
    /\ clock < MaxClock
    /\ clock' = clock + 1
    /\ UNCHANGED <<store, fstat, listing, dels,
                   extractVars, replayVars, rmVars, callVars, manualVars>>

\* lines 163-170: len(history), or 'Unknown' when the file does not load as
\* an object
StepsOf(doc) ==
    IF doc.kind = "object"
    THEN [known |-> TRUE, count |-> Len(HistoryOf(doc))]
    ELSE [known |-> FALSE, count |-> 0]

\* lines 172-177
Summary(st, fs, flow_name) ==
    [name |-> flow_name, created |-> fs[flow_name].mtime, steps |-> StepsOf(st[flow_name])]

\* the orders in which glob may yield the files
GlobOrders(names) ==
    {o \in [1..Cardinality(names) -> names] : \A i, j \in DOMAIN o : o[i] = o[j] => i = j}

\* line 183: flows.sort(key=lambda x: x['created'], reverse=True)
SortedByCreated(flows) ==
    \A i, j \in 1..Len(flows) : i < j => flows[i].created >= flows[j].created

\* GET /api/flows, lines 152-185.  The sort is stable, so files of equal
\* time keep the order glob gave them.
ListFlows ==
    /\ LET names == {n \in FlowNames : FlowExists(store, n)}
       IN  \E o \in GlobOrders(names) :
             /\ SortedByCreated([i \in 1..Cardinality(names) |-> Summary(store, fstat, o[i])])
             /\ listing' = [taken |-> TRUE,
                            flows |-> [i \in 1..Cardinality(names) |->
                                          Summary(store, fstat, o[i])]]
    /\ UNCHANGED <<store, fstat, clock, dels,
                   extractVars, replayVars, rmVars, callVars, manualVars>>

\* a handler without the test of line 222
DeleteNotFound_Skipped(st, flow_name) == FALSE

\* line 222: `if not flow_path.exists()`
DeleteNotFound(st, flow_name) == ~FlowExists(st, flow_name)

\* DELETE /api/flows/<flow_name>, lines 220-223
HandleDeleteFlow(d) ==
    /\ dels[d].pc = "idle"
    /\ \E flow_name \in FlowNames :
        dels' = [dels EXCEPT ![d] =
                    IF DeleteNotFound(store, flow_name)
                    THEN [pc |-> "done", flow_name |-> flow_name, status |-> 404]
                    ELSE [pc |-> "unlink", flow_name |-> flow_name, status |-> 0]]
    /\ UNCHANGED <<store, fstat, clock, listing,
                   extractVars, replayVars, rmVars, callVars, manualVars>>

\* lines 225-229: unlink() removes the file, or raises when another request
\* has removed it since the test
DeleteUnlink(d) ==
    /\ dels[d].pc = "unlink"
    /\ IF FlowExists(store, dels[d].flow_name)
       THEN /\ store' = [store EXCEPT ![dels[d].flow_name] = [kind |-> "absent"]]
            /\ fstat' = [fstat EXCEPT ![dels[d].flow_name] = NoStat]
            /\ listing' = NoListing
            /\ dels' = [dels EXCEPT ![d].pc = "done", ![d].status = 200]
       ELSE /\ dels' = [dels EXCEPT ![d].pc = "done", ![d].status = 500]
            /\ UNCHANGED <<store, fstat, listing>>
    /\ UNCHANGED <<clock, extractVars, replayVars, rmVars, callVars, manualVars>>

---------------------------------------------------------------------------
(* Task strings the extraction is exercised on: every concatenation of at  *)
(* most MaxFrags of the fragments below.                                   *)

MaxFrags == 4

Frags == << <<"s","e","a","r","c","h"," ","f","o","r"," ">>,
            <<"S","e","a","r","c","h"," ","F","o","r"," ">>,
            <<"c","a","t","s">>,
            <<" ","o","n"," ","g","o","o","g","l","e">>,
            <<" ","o","n"," ","b","i","n","g">>,
            <<".","c","o","m">>,
            <<"G","o","o","g","l","e",".","c","o","m">>,
            <<" ","n","o","w">> >>

RECURSIVE TasksOfLen(_)
TasksOfLen(n) ==
    IF n = 0 THEN {<<>>}
    ELSE {t \o Frags[i] : t \in TasksOfLen(n - 1), i \in 1..Len(Frags)}

Tasks == UNION {TasksOfLen(n) : n \in 0..MaxFrags}

\* no replay in progress, nothing extracted
ExtractIdle ==
    /\ task = <<>>
    /\ parameters = <<>>
    /\ epc = "idle"

NoFlows == [n \in FlowNames |-> [kind |-> "absent"]]

ReplayIdle ==
    /\ store0 = NoFlows
    /\ rpc = "idle"
    /\ rmode = "none"
    /\ rname = "none"
    /\ rinputs = <<>>
    /\ rout = Outcome("none", <<>>, 0, <<>>, 0, <<>>)

InitExtract ==
    /\ task \in Tasks
    /\ parameters = <<>>
    /\ epc = "ready"
    /\ store = NoFlows
    /\ ReplayIdle
    /\ RMIdle
    /\ CallIdle
    /\ ManualIdle
    /\ StoreIdle

\* parameters = extract_parameters_from_task(task)
ExtractFromTask ==
    /\ epc = "ready"
    /\ parameters' = extract_parameters_from_task(task)
    /\ epc' = "done"
    /\ UNCHANGED <<task, store, replayVars, rmVars, callVars, manualVars, storeVars>>

NextExtract == ExtractFromTask

SpecExtract == InitExtract /\ [][NextExtract]_vars

---------------------------------------------------------------------------
(* The replay drivers, each run on every flows directory over Docs.        *)

InitReplay ==
    /\ store \in [FlowNames -> Docs]
    /\ store0 = store
    /\ rpc = "ready"
    /\ rmode = "none"
    /\ rname = "none"
    /\ rinputs = <<>>
    /\ rout = Outcome("none", <<>>, 0, <<>>, 0, <<>>)
    /\ ExtractIdle
    /\ RMIdle
    /\ CallIdle
    /\ ManualIdle
    /\ StoreIdle

\* await replay_flow(flow_name, api_key)
ReplayFlow ==
    /\ rpc = "ready"
    /\ \E flow_name \in FlowNames, run \in {"ok", "raise"} :
        /\ rout' = replay_flow(store, flow_name, run)
        /\ rname' = flow_name
    /\ rmode' = "literal"
    /\ rpc' = "done"
    /\ UNCHANGED <<store, store0, rinputs, extractVars, rmVars, callVars, manualVars, storeVars>>

\* await replay_flow_with_params(flow_name, api_key)
ReplayFlowWithParams ==
    /\ rpc = "ready"
    /\ \E flow_name \in FlowNames, run \in {"ok", "raise"},
          inputs \in [1..2 -> UserInputs] :
        /\ rout' = replay_flow_with_params(store, flow_name, inputs, run)
        /\ rname' = flow_name
        /\ rinputs' = SubSeq(inputs, 1, rout'.solicited)
    /\ rmode' = "params"
    /\ rpc' = "done"
    /\ UNCHANGED <<store, store0, extractVars, rmVars, callVars, manualVars, storeVars>>

NextReplay == ReplayFlow \/ ReplayFlowWithParams

SpecReplay == InitReplay /\ [][NextReplay]_vars

---------------------------------------------------------------------------
(* extract_parameters_from_flow, applied to every flow whose history is a  *)
(* sequence of at most MaxSteps of the steps below.                        *)

MaxSteps == 3

URL_PLAIN == <<"h","t","t","p",":","/","/","a",".","i","o">>

\* a url typed without its scheme
URL_BARE == <<"b",".","i","o","/","x">>

\* a url that holds the scheme separator twice
URL_TWICE == <<"p",":","/","/","c",":","/","/","d","/","e">>

CATS == <<"c","a","t","s">>

BLANK == <<" "," ">>

FlowSteps ==
    {StepObj(<<THINKING>>, <<GoToUrl(URL_BING), InputText(DOGS)>>),
     StepObj(<<>>, <<InputText(BLANK), GoToUrl(URL_BARE)>>),
     StepObj(<<>>, <<GoToUrl(URL_PLAIN)>>),
     StepObj(<<>>, <<InputText(CATS), Click>>),
     StepObj(<<>>, <<GoToUrl(URL_TWICE)>>),
     StepBare,
     StepNull}

RECURSIVE HistoriesOfLen(_)
HistoriesOfLen(n) ==
    IF n = 0 THEN {<<>>}
    ELSE {Append(h, st) : h \in HistoriesOfLen(n - 1), st \in FlowSteps}

FlowHistories == UNION {HistoriesOfLen(n) : n \in 0..MaxSteps}

Flows ==
    {[kind |-> "object", original_user_task |-> t, history |-> h] :
        t \in {<<>>, << <<>> >>, <<TASK_CATS>>, <<TASK_OPEN>>},
        h \in {<<>>} \cup {<<h>> : h \in FlowHistories}}

InitFlow ==
    /\ xflow \in Flows
    /\ xout = <<>>
    /\ xpc = "ready"
    /\ s_task = <<>>
    /\ s_values = <<>>
    /\ s_params = <<>>
    /\ s_out = <<>>
    /\ spc = "idle"
    /\ store = NoFlows
    /\ ExtractIdle
    /\ ReplayIdle
    /\ RMIdle
    /\ ManualIdle
    /\ StoreIdle

\* xout = extract_parameters_from_flow(xflow)
ExtractFromFlow ==
    /\ xpc = "ready"
    /\ xout' = extract_parameters_from_flow(xflow)
    /\ xpc' = "done"
    /\ UNCHANGED <<xflow, s_task, s_values, s_params, s_out, spc, store,
                   extractVars, replayVars, rmVars, manualVars, storeVars>>

NextFlow == ExtractFromFlow

SpecFlow == InitFlow /\ [][NextFlow]_vars

---------------------------------------------------------------------------
(* substitute_parameters_in_task, applied to every task of at most         *)
(* MaxTaskLen characters and every pair of dicts over the values below.    *)

MaxTaskLen == 3

SubstChars == {"a", "b", "A"}

RECURSIVE SubstTasksOfLen(_)
SubstTasksOfLen(n) ==
    IF n = 0 THEN {<<>>}
    ELSE {Append(t, c) : t \in SubstTasksOfLen(n - 1), c \in SubstChars}

SubstTasks == UNION {SubstTasksOfLen(n) : n \in 0..MaxTaskLen}

\* old and new values of a parameter
SubstValues == {<<>>, <<"a">>, <<"b">>, <<"a","b">>}

\* the values a dict may hold under a name; "other" is a name the engine
\* does not know
EntriesOf(name) ==
    IF name = "other" THEN {<<name, <<"b">>>>}
    ELSE {<<name, v>> : v \in SubstValues}

\* every dict whose keys are drawn from names, in every insertion order
RECURSIVE DictsOver(_)
DictsOver(names) ==
    {<<>>} \cup UNION {{Append(d, e) : d \in DictsOver(names \ {n}), e \in EntriesOf(n)} :
                         n \in names}

InitSubst ==
    /\ s_task \in SubstTasks
    /\ s_values \in DictsOver({"website", "search_term", "other"})
    /\ s_params \in DictsOver({"website", "search_term"})
    /\ s_out = <<>>
    /\ spc = "ready"
    /\ xflow = <<>>
    /\ xout = <<>>
    /\ xpc = "idle"
    /\ store = NoFlows
    /\ ExtractIdle
    /\ ReplayIdle
    /\ RMIdle
    /\ ManualIdle
    /\ StoreIdle

\* s_out = substitute_parameters_in_task(s_task, s_values, s_params)
Substitute ==
    /\ spc = "ready"
    /\ s_out' = substitute_parameters_in_task(s_task, s_values, s_params)
    /\ spc' = "done"
    /\ UNCHANGED <<s_task, s_values, s_params, xflow, xout, xpc, store,
                   extractVars, replayVars, rmVars, manualVars, storeVars>>

NextSubst == Substitute

SpecSubst == InitSubst /\ [][NextSubst]_vars

---------------------------------------------------------------------------
(* manual_recorder.py: ManualRecorder.  A captured event is                *)
(*   [type |-> "navigation", url |-> u], [type |-> "click", data |-> d] or *)
(*   [type |-> "input", data |-> [value |-> v]].                           *)
(* The timestamps (time.time()) of events and steps are left out: nothing  *)
(* reads them.                                                             *)

Digits == <<"0","1","2","3","4","5","6","7","8","9">>

\* str(n) for n >= 0, as the f-strings format it
RECURSIVE Str(_)
Str(n) == IF n < 10 THEN <<Digits[n + 1]>> ELSE Str(n \div 10) \o <<Digits[(n % 10) + 1]>>

EVALUATION == <<"M","a","n","u","a","l"," ","r","e","c","o","r","d","i",
                "n","g"," ","s","t","e","p">>

MEMORY_PREFIX == <<"U","s","e","r"," ","m","a","n","u","a","l","l","y",
                   " ","p","e","r","f","o","r","m","e","d"," ","a","c",
                   "t","i","o","n"," ">>

NEXT_GOAL_PREFIX == <<"E","x","e","c","u","t","e"," ","r","e","c","o",
                      "r","d","e","d"," ","a","c","t","i","o","n",":",
                      " ">>

THINKING_PREFIX == <<"R","e","c","o","r","d","e","d"," ","f","r","o",
                     "m"," ","m","a","n","u","a","l"," ","u","s","e",
                     "r"," ","d","e","m","o","n","s","t","r","a","t",
                     "i","o","n"," ","-"," ","s","t","e","p"," ">>

RECORDED_MANUALLY == <<"r","e","c","o","r","d","e","d","_","m","a","n",
                       "u","a","l","l","y">>

MANUAL_RECORDING == <<"M","a","n","u","a","l"," ","R","e","c","o","r",
                      "d","i","n","g">>

\* the name of an action type as a Python string
TypeName(type) ==
    CASE type = "go_to_url" -> <<"g","o","_","t","o","_","u","r","l">>
      [] type = "click_element_by_index" -> <<"c","l","i","c","k","_",
                                              "e","l","e","m","e","n",
                                              "t","_","b","y","_","i",
                                              "n","d","e","x">>
      [] type = "input_text" -> <<"i","n","p","u","t","_","t","e","x",
                                  "t">>

\* a converter that collects consecutive input events into one action
ConvertEvent_MergeInputs(converted, event) ==
    CASE event.type = "navigation" ->
            Append(converted, [type |-> "go_to_url",
                               params |-> << <<"url", event.url>>, <<"new_tab", FALSE>> >>])
      [] event.type = "click" ->
            Append(converted, [type |-> "click_element_by_index",
                               params |-> << <<"index", Len(converted) + 1>>,
                                             <<"while_holding_ctrl", FALSE>> >>])
      [] event.type = "input" ->
            IF converted # <<>> /\ converted[Len(converted)].type = "input_text"
            THEN [converted EXCEPT ![Len(converted)] =
                     [type |-> "input_text",
                      params |-> << <<"index", Len(converted)>>,
                                    <<"text", event.data.value>>,
                                    <<"clear_existing", TRUE>> >>]]
            ELSE Append(converted, [type |-> "input_text",
                                    params |-> << <<"index", Len(converted) + 1>>,
                                                  <<"text", event.data.value>>,
                                                  <<"clear_existing", TRUE>> >>])
      [] OTHER -> converted

\* one pass of the loop of lines 173-204
ConvertEvent(converted, event) ==
    CASE event.type = "navigation" ->
            Append(converted, [type |-> "go_to_url",
                               params |-> << <<"url", event.url>>, <<"new_tab", FALSE>> >>])
      [] event.type = "click" ->
            Append(converted, [type |-> "click_element_by_index",
                               params |-> << <<"index", Len(converted) + 1>>,
                                             <<"while_holding_ctrl", FALSE>> >>])
      [] event.type = "input" ->
            Append(converted, [type |-> "input_text",
                               params |-> << <<"index", Len(converted) + 1>>,
                                             <<"text", event.data.value>>,
                                             <<"clear_existing", TRUE>> >>])
      [] OTHER -> converted

RECURSIVE ConvertFrom(_, _, _)
ConvertFrom(events, converted, i) ==
    IF i > Len(events) THEN converted
    ELSE ConvertFrom(events, ConvertEvent(converted, events[i]), i + 1)

\* ManualRecorder._convert_to_browser_use_actions
convert_to_browser_use_actions(events) == ConvertFrom(events, <<>>, 1)

\* a terminal flag that is one step late
IsDone_OneLate(i, n) == i = n + 1

\* `i == len(actions) - 1` of line 225, for the i-th of n actions counted from 1
IsDone(i, n) == i = n

\* the step synthesized for the i-th of n actions, lines 217-241
ManualStep(action, i, n) ==
    [model_output |->
        [tag |-> "obj",
         evaluation_previous_goal |-> EVALUATION,
         memory |-> MEMORY_PREFIX \o Str(i),
         next_goal |-> NEXT_GOAL_PREFIX \o TypeName(action.type),
         action |-> <<action>>,
         thinking |-> <<THINKING_PREFIX \o Str(i)>>],
     result |-> <<[is_done |-> IsDone(i, n), error |-> NONE,
                   include_extracted_content_only_once |-> FALSE,
                   include_in_memory |-> TRUE]>>,
     state |-> [url |-> RECORDED_MANUALLY, title |-> MANUAL_RECORDING],
     metadata |-> [step_number |-> i]]

\* ManualRecorder._create_flow_structure
create_flow_structure(converted, description) ==
    [kind |-> "object",
     original_user_task |-> <<description>>,
     history |-> <<[i \in 1..Len(converted) |->
                        ManualStep(converted[i], i, Len(converted))]>>]

---------------------------------------------------------------------------
(* One ManualRecorder session.  start_recording and the event callbacks    *)
(* are tasks of one asyncio event loop: a callback runs only while the     *)
(* coroutine is suspended at an await.  input() does not suspend it, it    *)
(* blocks the loop, so the callbacks of the events the browser delivers    *)
(* meanwhile wait in the loop's queue.                                      *)

MaxEvents == 3

MANUAL_PREFIX == <<"M","a","n","u","a","l"," ","r","e","c","o","r","d","i","n","g",":"," ">>

\* a flow name as a Python string
NameChars(flow_name) ==
    CASE flow_name = "demo" -> <<"d","e","m","o">>
      [] flow_name = "other" -> <<"o","t","h","e","r">>

\* what the user types at "Enter task description: "
TypedDescriptions == {<<>>, <<" ">> \o TASK_OPEN}

\* main(), lines 255-258: the description typed, or the default one
DescriptionFor(flow_name, typed) ==
    IF Strip(typed) = <<>> THEN MANUAL_PREFIX \o NameChars(flow_name) ELSE Strip(typed)

\* the urls of the requests the page makes
RequestUrls == {URL_PLAIN, URL_BING}

\* the console messages of the injected listeners: a click, an input with
\* the value of the field, or any other text
ConsoleMessages ==
    {[binding |-> "recordClick", data |-> [tagName |-> "BUTTON"]],
     [binding |-> "recordInput", data |-> [value |-> DOGS]],
     [binding |-> "recordInput", data |-> [value |-> <<>>]],
     [binding |-> "none", data |-> [value |-> <<>>]]}

\* the entry _capture_navigation appends for a request
NavigationEvent(url) == [type |-> "navigation", url |-> url]

\* the entry _handle_console_event appends for a message, if any
ConsoleEvent(msg) ==
    CASE msg.binding = "recordClick" -> <<[type |-> "click", data |-> msg.data]>>
      [] msg.binding = "recordInput" -> <<[type |-> "input", data |-> msg.data]>>
      [] OTHER -> <<>>

\* the callbacks the browser's events schedule on the event loop
Callbacks ==
    {[handler |-> "_capture_navigation", url |-> url] : url \in RequestUrls}
    \cup {[handler |-> "_handle_console_event", msg |-> msg] : msg \in ConsoleMessages}

\* the event a callback is to record, if any
EventOf(cb) ==
    IF cb.handler = "_capture_navigation" THEN <<NavigationEvent(cb.url)>>
    ELSE ConsoleEvent(cb.msg)

\* main() and start_recording up to the input() that waits for Enter
StartManualRecording ==
    /\ mpc = "constructed"
    /\ \E flow_name \in FlowNames, typed \in TypedDescriptions :
        /\ mname' = flow_name
        /\ mtask' = DescriptionFor(flow_name, typed)
    /\ recording' = TRUE
    /\ cdp_events' = <<>>
    /\ mpc' = "recording"
    /\ UNCHANGED <<pending, delivered, store, storeVars,
                   extractVars, replayVars, rmVars, callVars>>

\* the user acts in the browser while start_recording waits in input(): the
\* browser delivers the event and its callback is scheduled
BrowserEvent ==
    /\ mpc = "recording"
    /\ Len(pending) < MaxEvents
    /\ \E cb \in Callbacks :
        /\ pending' = Append(pending, cb)
        /\ delivered' = delivered \o EventOf(cb)
    /\ UNCHANGED <<recording, cdp_events, mname, mtask, mpc, store, storeVars,
                   extractVars, replayVars, rmVars, callVars>>

\* ManualRecorder._capture_navigation, run by the event loop while the
\* coroutine is suspended in `await self.session.close()`
CaptureNavigation ==
    /\ mpc = "saved"
    /\ pending # <<>>
    /\ Head(pending).handler = "_capture_navigation"
    /\ cdp_events' = IF recording
                     THEN Append(cdp_events, NavigationEvent(Head(pending).url))
                     ELSE cdp_events
    /\ pending' = Tail(pending)
    /\ UNCHANGED <<recording, mname, mtask, mpc, delivered, store, storeVars,
                   extractVars, replayVars, rmVars, callVars>>

\* ManualRecorder._handle_console_event, run by the event loop likewise
HandleConsoleEvent ==
    /\ mpc = "saved"
    /\ pending # <<>>
    /\ Head(pending).handler = "_handle_console_event"
    /\ cdp_events' = IF recording
                     THEN cdp_events \o ConsoleEvent(Head(pending).msg)
                     ELSE cdp_events
    /\ pending' = Tail(pending)
    /\ UNCHANGED <<recording, mname, mtask, mpc, delivered, store, storeVars,
                   extractVars, replayVars, rmVars, callVars>>

\* Enter: input() returns and ManualRecorder.stop_recording runs up to its
\* first await, `await self.session.close()`
StopManualRecording ==
    /\ mpc = "recording"
    /\ recording' = FALSE
    /\ store' = [store EXCEPT ![mname] =
                    create_flow_structure(convert_to_browser_use_actions(cdp_events),
                                          mtask)]
    /\ mpc' = "saved"
    /\ UNCHANGED <<cdp_events, mname, mtask, pending, delivered, storeVars,
                   extractVars, replayVars, rmVars, callVars>>

\* session.close() returns and stop_recording ends; the callbacks still
\* queued go with the loop
CloseSession ==
    /\ mpc = "saved"
    /\ mpc' = "closed"
    /\ pending' = <<>>
    /\ UNCHANGED <<recording, cdp_events, mname, mtask, delivered, store, storeVars,
                   extractVars, replayVars, rmVars, callVars>>

InitSession ==
    /\ recording = FALSE
    /\ cdp_events = <<>>
    /\ mname = "none"
    /\ mtask = <<>>
    /\ mpc = "constructed"
    /\ pending = <<>>
    /\ delivered = <<>>
    /\ store = NoFlows
    /\ StoreIdle
    /\ ExtractIdle
    /\ ReplayIdle
    /\ RMIdle
    /\ CallIdle

NextSession ==
    \/ StartManualRecording
    \/ BrowserEvent
    \/ StopManualRecording
    \/ CaptureNavigation
    \/ HandleConsoleEvent
    \/ CloseSession

SpecSession == InitSession /\ [][NextSession]_vars

---------------------------------------------------------------------------
(* stop_recording on its own: the conversion and the save for every list   *)
(* of at most MaxEvents captured events                                     *)

CapturedEvents ==
    {NavigationEvent(url) : url \in RequestUrls}
    \cup {ConsoleEvent(msg)[1] : msg \in {m \in ConsoleMessages : ConsoleEvent(m) # <<>>}}

EventListsOfLen(n) == [1..n -> CapturedEvents]

EventLists == UNION {EventListsOfLen(n) : n \in 0..MaxEvents}

InitManual ==
    /\ recording = TRUE
    /\ cdp_events \in EventLists
    /\ mname \in FlowNames
    /\ mtask \in {DescriptionFor(mname, typed) : typed \in TypedDescriptions}
    /\ mpc = "recording"
    /\ pending = <<>>
    /\ delivered = <<>>
    /\ store = NoFlows
    /\ StoreIdle
    /\ ExtractIdle
    /\ ReplayIdle
    /\ RMIdle
    /\ CallIdle

NextManual ==
    \/ StopManualRecording

SpecManual == InitManual /\ [][NextManual]_vars

---------------------------------------------------------------------------
(* One recording run from the terminal, `browser_agent.py --save-flow      *)
(* <name>`: process 1 is the run, no web server is involved and the task   *)
(* is typed at the prompt of line 325.                                     *)

\* what the user types at "Enter the task to record: "
TypedTasks == {<<>>, <<" ">>, TASK_OPEN, <<" ">> \o TASK_CATS \o <<" ">>}

\* the documents the flows directory may hold before the run
EarlierDocs ==
    {[kind |-> "absent"], [kind |-> "invalid"],
     [kind |-> "object", original_user_task |-> <<TASK_GO>>,
      history |-> << <<StepObj(<<>>, <<Click>>)>> >>]}

\* main, lines 325-329: input(); a blank task makes main return, any other
\* task becomes the prompt
MainInput(p) ==
    /\ ProcAt(p, "input")
    /\ \A w \in Reqs : worker[w].pc = "unborn"
    /\ \E task_prompt \in TypedTasks :
          proc' = [proc EXCEPT ![p].pc = IF Strip(task_prompt) = <<>> THEN "exited"
                                         ELSE "agent",
                               ![p].task = <<task_prompt>>]
    /\ UNCHANGED <<is_recording, current_flow_name, recording_process,
                   recording_thread, req, worker, store>>
    /\ UNCHANGED <<extractVars, replayVars, callVars, manualVars, storeVars>>

InitRecord ==
    /\ store \in [FlowNames -> EarlierDocs]
    /\ store0 = store
    /\ is_recording = FALSE
    /\ current_flow_name = NONE
    /\ recording_process = 0
    /\ recording_thread = 0
    /\ req = [r \in Reqs |-> ReqIdle]
    /\ worker = [r \in Reqs |-> WorkerUnborn]
    /\ \E flow_name \in FlowNames :
          proc = [r \in Reqs |->
                    IF r = 1
                    THEN [pc |-> "input", flow_name |-> flow_name, task |-> <<>>,
                          termed |-> FALSE, agent |-> "none"]
                    ELSE ProcUnborn]
    /\ rpc = "idle"
    /\ rmode = "none"
    /\ rname = "none"
    /\ rinputs = <<>>
    /\ rout = Outcome("none", <<>>, 0, <<>>, 0, <<>>)
    /\ ExtractIdle
    /\ CallIdle
    /\ ManualIdle
    /\ StoreIdle

NextRecord ==
    \/ \E p \in Reqs : ProcNoApiKey(p)
    \/ \E p \in Reqs : MainInput(p)
    \/ \E p \in Reqs : ProcAgent(p)
    \/ \E p \in Reqs : ProcOpen(p)
    \/ \E p \in Reqs : ProcDump(p)

SpecRecord == InitRecord /\ [][NextRecord]_vars

---------------------------------------------------------------------------
(* The flows directory under saves, deletes and listings *)

InitStore ==
    /\ store = NoFlows
    /\ StoreIdle
    /\ ExtractIdle
    /\ ReplayIdle
    /\ RMIdle
    /\ CallIdle
    /\ ManualIdle

NextStore ==
    \/ SaveFlow
    \/ Tick
    \/ ListFlows
    \/ \E d \in Deleters : HandleDeleteFlow(d)
    \/ \E d \in Deleters : DeleteUnlink(d)

SpecStore == InitStore /\ [][NextStore]_vars

---------------------------------------------------------------------------
(* The web server: requests, recording threads and subprocesses interleave *)

Init ==
    /\ RMIdle
    /\ store = NoFlows
    /\ ExtractIdle
    /\ ReplayIdle
    /\ CallIdle
    /\ ManualIdle
    /\ StoreIdle

Next ==
    \/ \E r \in Reqs : HandleStartRecording(r)
    \/ \E r \in Reqs : HandleStopRecording(r)
    \/ \E r \in Reqs : StartSetFlag(r)
    \/ \E r \in Reqs : StartSetName(r)
    \/ \E r \in Reqs : StartThread(r)
    \/ \E r \in Reqs : StopIfProcess(r)
    \/ \E r \in Reqs : StopTerminate(r)
    \/ \E r \in Reqs : StopWait(r)
    \/ \E r \in Reqs : StopKill(r)
    \/ \E r \in Reqs : StopClearFlag(r)
    \/ \E r \in Reqs : StopClearName(r)
    \/ \E w \in Reqs : WorkerPopen(w)
    \/ \E w \in Reqs : WorkerCommunicate(w)
    \/ \E w \in Reqs : WorkerReap(w)
    \/ \E w \in Reqs : WorkerFinallyFlag(w)
    \/ \E w \in Reqs : WorkerFinallyProc(w)
    \/ \E p \in Reqs : ProcNoApiKey(p)
    \/ \E p \in Reqs : ProcInput(p)
    \/ \E p \in Reqs : ProcInputEOF(p)
    \/ \E p \in Reqs : ProcAgent(p)
    \/ \E p \in Reqs : ProcOpen(p)
    \/ \E p \in Reqs : ProcDump(p)
    \/ \E p \in Reqs : ProcDie(p)

Spec == Init /\ [][Next]_vars

\* the statements of _run_recording, run by recording thread w
WorkerStep(w) ==
    \/ WorkerPopen(w)
    \/ WorkerCommunicate(w)
    \/ WorkerReap(w)
    \/ WorkerFinallyFlag(w)
    \/ WorkerFinallyProc(w)

\* the statements of main() in subprocess p, and the end a signal puts to it
ProcStep(p) ==
    \/ ProcNoApiKey(p)
    \/ ProcInput(p)
    \/ ProcInputEOF(p)
    \/ ProcAgent(p)
    \/ ProcOpen(p)
    \/ ProcDump(p)
    \/ ProcDie(p)

\* the web server with every recording thread and every subprocess scheduled
\* again and again while it can run; nothing is assumed of the requests
SpecLive ==
    /\ Spec
    /\ \A w \in Reqs : WF_vars(WorkerStep(w))
    /\ \A p \in Reqs : WF_vars(ProcStep(p))

---------------------------------------------------------------------------
(* Properties of Strategy A, checked under SpecExtract *)

GOOGLE_COM == <<"g","o","o","g","l","e",".","c","o","m">>

CATS_ON_GOOGLE_COM == <<"c","a","t","s"," ","o","n"," ",
                        "g","o","o","g","l","e",".","c","o","m">>

\* x without a trailing " on google" or " on bing"
TrailingSuffixRemoved(x) ==
    IF EndsWith(x, ON_GOOGLE) THEN SubSeq(x, 1, Len(x) - Len(ON_GOOGLE))
    ELSE IF EndsWith(x, ON_BING) THEN SubSeq(x, 1, Len(x) - Len(ON_BING))
    ELSE x

\* the text of t that follows the first occurrence of "search for", the
\* phrase being looked for in t itself (CaseSensitive) or in any letter case
TextAfterPhrase(t, caseSensitive) ==
    LET at == Find(IF caseSensitive THEN t ELSE Lower(t), SEARCH_FOR, 1)
    IN  SubSeq(t, at + Len(SEARCH_FOR), Len(t))

\* C7: every default value produced by Strategy A, website and search_term
\* alike, occurs as a literal, original-case substring of the task string.
C7_DefaultsAreSubstringsOfTask ==
    epc = "done" =>
        \A i \in 1..Len(parameters) : Contains(task, parameters[i][2])

\* C8: for the task "search for cats on google.com" Strategy A yields
\* website = "google.com" and search_term = "cats on google.com".
C8_CatsOnGoogleCom ==
    (epc = "done" /\ task = TASK_CATS) =>
        /\ DictKeys(parameters) = {"website", "search_term"}
        /\ DictGet(parameters, "website") = GOOGLE_COM
        /\ DictGet(parameters, "search_term") = CATS_ON_GOOGLE_COM

\* C9: a task that contains exactly one known website W and the phrase
\* "search for X" (once) yields exactly {website: W, search_term: X'}, X' being
\* X without a trailing " on google" or " on bing".
C9_OneWebsiteAndSearchFor ==
    LET known == {i \in 1..Len(websites) : Contains(task, websites[i])}
    IN  (/\ epc = "done"
         /\ Cardinality(known) = 1
         /\ Len(Split(task, SEARCH_FOR)) = 2) =>
            /\ DictKeys(parameters) = {"website", "search_term"}
            /\ DictGet(parameters, "website") = websites[MinOf(known)]
            /\ DictGet(parameters, "search_term") =
                   TrailingSuffixRemoved(Strip(TextAfterPhrase(task, TRUE)))

\* C10: whenever the task contains "search for" in any letter case, a
\* search_term is produced and it is the whole text after the first occurrence
\* of the phrase, trimmed and with the trailing suffix removed.
C10_SearchTermWheneverPhrase ==
    (epc = "done" /\ Contains(Lower(task), SEARCH_FOR)) =>
        /\ DictHas(parameters, "search_term")
        /\ DictGet(parameters, "search_term") =
               TrailingSuffixRemoved(Strip(TextAfterPhrase(task, FALSE)))

---------------------------------------------------------------------------
(* Properties of the replay drivers, checked under SpecReplay *)

\* the file the driver was asked to replay, as it was when the driver started
ReplayedDoc == store0[rname]

\* C5: in both replay modes agent.run() is awaited only if the named flow
\* exists, parses as a JSON object and has a non-empty history; for a missing
\* flow ("not found") and for an empty or absent history ("no history") the
\* error is reported, the Agent is neither constructed nor run, and the flows
\* directory is as it was.
C5_AgentOnlyOnReplayableFlow ==
    rpc = "done" =>
        /\ rout.agent_runs > 0 =>
              /\ ReplayedDoc.kind = "object"
              /\ HistoryOf(ReplayedDoc) # <<>>
        /\ ReplayedDoc.kind = "absent" =>
              /\ rout.report = "not_found"
              /\ rout.agent_task = <<>> /\ rout.agent_runs = 0
              /\ store = store0
        /\ (ReplayedDoc.kind = "object" /\ HistoryOf(ReplayedDoc) = <<>>) =>
              /\ rout.report = "no_history"
              /\ rout.agent_task = <<>> /\ rout.agent_runs = 0
              /\ store = store0

\* C5 witness: a parameterised replay of a flow that has a task with
\* parameters but an empty history has returned with the error.
C5_Witness ==
    /\ rpc = "done" /\ rmode = "params"
    /\ ReplayedDoc.kind = "object"
    /\ ReplayedDoc.original_user_task = <<TASK_CATS>>
    /\ ReplayedDoc.history = << <<>> >>
    /\ rout.report = "no_history"

\* the display task the literal driver is to derive from a flow document
DisplayTask(flow_data) ==
    LET mo == HistoryOf(flow_data)[1].model_output
    IN  IF Truthy(flow_data.original_user_task) THEN flow_data.original_user_task[1]
        ELSE IF mo.tag = "obj" /\ mo.thinking # <<>> THEN mo.thinking[1]
        ELSE PLACEHOLDER

\* C6: in literal replay the Agent's task is "Replay this flow: " followed by
\* original_user_task when present and non-empty, otherwise by the first
\* step's thinking, otherwise by the placeholder.
C6_LiteralTaskPrefersOriginalTask ==
    (rpc = "done" /\ rmode = "literal" /\ rout.agent_task # <<>>) =>
        rout.agent_task[1] = REPLAY_PREFIX \o DisplayTask(ReplayedDoc)

---------------------------------------------------------------------------
(* Properties of the RecordingManager, checked under Spec *)

\* C1: under every interleaving of start_recording calls, stop_recording
\* calls and recording threads, at most one recording subprocess is alive.
C1_AtMostOneSubprocessAlive ==
    Cardinality({p \in Reqs : ProcAlive(p)}) <= 1

\* C2: once stop_recording has returned success for an active recording, the
\* subprocess of that recording is not alive, whether the recording thread had
\* spawned it or not when stop_recording was called.
C2_StoppedRecordingNotAlive ==
    \A r \in Reqs :
        (req[r].op = "stop" /\ req[r].result = "stopped" /\ req[r].target # 0) =>
            ~ProcAlive(req[r].target)

\* C3: a flow document is absent or complete, except while a running save is
\* between opening the file and closing it: no save that was interrupted
\* leaves a truncated document under the flow's name.
C3_NoPartialDocument ==
    \A n \in FlowNames :
        store[n].kind \in {"absent", "object"}
        \/ \E p \in Reqs :
              ProcAlive(p) /\ proc[p].pc = "dump" /\ proc[p].flow_name = n

\* a well-formed start request arrives at request thread r while is_recording
RejectedStart(r) ==
    /\ Arrives(r)
    /\ is_recording
    /\ req'[r].op = "start"
    /\ req'[r].result # "bad_request"

\* C4: a start_recording call made while is_recording is true returns
\* (False, "Already recording") in a step that leaves is_recording,
\* current_flow_name, recording_process, the threads, the subprocesses and the
\* flow store unchanged; no thread or subprocess is ever started for it.
C4_StartWhileRecordingRejected ==
    /\ [][\A r \in Reqs :
            RejectedStart(r) =>
                /\ req'[r].pc = "done"
                /\ req'[r].result = "already_recording"
                /\ UNCHANGED <<is_recording, current_flow_name, recording_process,
                               recording_thread, worker, proc, store>>]_vars
    /\ [](\A r \in Reqs :
            req[r].result = "already_recording" =>
                worker[r].pc = "unborn" /\ proc[r].pc = "unborn")

\* C4 witness: a start request was refused while another recording's
\* subprocess was running.
C4_Witness ==
    \E r \in Reqs :
        /\ req[r].result = "already_recording"
        /\ \E p \in Reqs : ProcAlive(p)


---------------------------------------------------------------------------
(* Properties of extract_parameters_from_flow, checked under SpecFlow *)

\* what Strategy A yields for the flow's original_user_task, <<>> when the
\* task is absent or empty
StrategyA(fd) ==
    IF fd.original_user_task # <<>> /\ fd.original_user_task[1] # <<>>
    THEN extract_parameters_from_task(fd.original_user_task[1])
    ELSE <<>>

\* C11: for every flow whose original_user_task is present and yields a
\* non-empty parameter set under Strategy A, the extractor returns exactly
\* that set whatever the recorded history is; a result that is not what
\* Strategy A yields occurs only when the task is absent or empty or
\* Strategy A yields no parameter.
C11_StrategyPriority ==
    xpc = "done" =>
        /\ StrategyA(xflow) # <<>> =>
               xout = [raised |-> FALSE, parameters |-> StrategyA(xflow)]
        /\ xout # [raised |-> FALSE, parameters |-> StrategyA(xflow)] =>
               StrategyA(xflow) = <<>>

\* Strategy A has answered for a flow whose history holds a go_to_url and an
\* input_text that Strategy B would have answered differently
C11_Witness ==
    /\ xpc = "done"
    /\ StrategyA(xflow) # <<>>
    /\ xflow.history # <<>>
    /\ \A i \in 1..Len(xflow.history[1]) : xflow.history[1][i].model_output.tag # "null"
    /\ ScanSteps(<<>>, xflow.history[1], 1) \notin {<<>>, StrategyA(xflow)}
    /\ xout.parameters = StrategyA(xflow)

\* the actions of a history, in step order then within-step action order
RECURSIVE FlatActions(_, _)
FlatActions(h, i) ==
    IF i > Len(h) THEN <<>>
    ELSE (IF h[i].model_output.tag = "obj" THEN h[i].model_output.action ELSE <<>>)
         \o FlatActions(h, i + 1)

ScannedHistory == IF xflow.history = <<>> THEN <<>> ELSE xflow.history[1]

\* the scan is what answers: Strategy A yields nothing and every step is an
\* object or lacks its model output
StrategyBAnswers ==
    /\ xpc = "done"
    /\ StrategyA(xflow) = <<>>
    /\ \A i \in 1..Len(ScannedHistory) : ScannedHistory[i].model_output.tag # "null"

UrlOf(a) == a.params[CHOOSE k \in 1..Len(a.params) : a.params[k][1] = "url"][2]

TextOf(a) == a.params[CHOOSE k \in 1..Len(a.params) : a.params[k][1] = "text"][2]

UpTo(s, sep) ==
    IF Find(s, sep, 1) = 0 THEN s ELSE SubSeq(s, 1, Find(s, sep, 1) - 1)

After(s, sep) ==
    IF Find(s, sep, 1) = 0 THEN s ELSE SubSeq(s, Find(s, sep, 1) + Len(sep), Len(s))

WithoutWww(h) == IF StartsWith(h, WWW_DOT) THEN SubSeq(h, 5, Len(h)) ELSE h

\* the piece of the url between its first scheme separator and the next
\* one (or the end), up to the first '/' of that piece, without a leading www.
HostOf(url) == WithoutWww(UpTo(UpTo(After(url, SCHEME_SEP), SCHEME_SEP), SLASH))

NonBlankInputs(acts) ==
    {i \in 1..Len(acts) : acts[i].type = "input_text" /\ Strip(TextOf(acts[i])) # <<>>}

\* the parameter set d holds website w (<<>> for none) and search_term t
HoldsExactly(d, w, t) ==
    /\ DictHas(d, "website") <=> w # <<>>
    /\ w # <<>> => DictGet(d, "website") = w[1]
    /\ DictHas(d, "search_term") <=> t # <<>>
    /\ t # <<>> => DictGet(d, "search_term") = t[1]
    /\ DictKeys(d) \subseteq {"website", "search_term"}

LastNonBlankText(acts) ==
    IF NonBlankInputs(acts) = {} THEN <<>>
    ELSE <<TextOf(acts[MaxOf(NonBlankInputs(acts))])>>

---------------------------------------------------------------------------
(* Properties of substitute_parameters_in_task, checked under SpecSubst *)

\* C13: substituting every parameter by its own old value is the identity,
\* also when an old value is empty or is a substring of the other.
C13_OwnValuesAreIdentity ==
    spc = "done" /\ s_values = s_params => s_out = s_task

\* both parameters substituted by themselves in a task that holds them, one
\* old value being empty and so a substring of the other
C13_Witness ==
    /\ spc = "done"
    /\ s_values = s_params
    /\ s_params = << <<"website", <<"a","b">>>>, <<"search_term", <<>>>> >>
    /\ s_task = <<"A","a","b">>
    /\ s_out = s_task

\* the pieces of t between the occurrences of old, found left to right
\* without overlap; the empty string occurs before every character and at
\* the end
PiecesOf(t, old) ==
    IF old = <<>>
    THEN << <<>> >> \o [i \in 1..Len(t) |-> <<t[i]>>] \o << <<>> >>
    ELSE Split(t, old)

RECURSIVE JoinFrom(_, _, _)
JoinFrom(pieces, glue, i) ==
    IF i = Len(pieces) THEN pieces[i]
    ELSE pieces[i] \o glue \o JoinFrom(pieces, glue, i + 1)

SingleRecognizedEntry ==
    /\ spc = "done"
    /\ Len(s_values) = 1
    /\ s_values[1][1] \in {"website", "search_term"}
    /\ \E k \in 1..Len(s_params) : s_params[k][1] = s_values[1][1]

OldValue == s_params[CHOOSE k \in 1..Len(s_params) : s_params[k][1] = s_values[1][1]][2]

\* C14: a single entry (name, newValue) with a recognized name present in
\* originalParams replaces every occurrence of originalParams[name] by
\* newValue, matching literally: the result is the pieces of the task between
\* the occurrences joined by newValue, and no piece holds the old value.
C14_EveryOccurrenceReplaced ==
    SingleRecognizedEntry =>
        /\ s_out = JoinFrom(PiecesOf(s_task, OldValue), s_values[1][2], 1)
        /\ OldValue # <<>> =>
               \A i \in 1..Len(PiecesOf(s_task, OldValue)) :
                   ~Contains(PiecesOf(s_task, OldValue)[i], OldValue)
        /\ OldValue # <<>> /\ Len(s_values[1][2]) = 0 =>
               Len(s_out) = Len(s_task)
                            - (Len(PiecesOf(s_task, OldValue)) - 1) * Len(OldValue)

\* two occurrences of the old value replaced by a value that does not hold it
C14_Witness ==
    /\ SingleRecognizedEntry
    /\ OldValue = <<"a">>
    /\ s_values[1][2] = <<>>
    /\ s_task = <<"a","b","a">>
    /\ s_out = <<"b">>

\* param_values without its i-th entry
WithoutEntry(d, i) == SubSeq(d, 1, i - 1) \o SubSeq(d, i + 1, Len(d))

\* the entries that must have no effect
Ignored(d, i) ==
    \/ d[i][1] \notin {"website", "search_term"}
    \/ ~\E k \in 1..Len(s_params) : s_params[k][1] = d[i][1]

\* C15: an entry of newValues whose name is not website or search_term, or
\* whose name is missing from originalParams, has no effect: the result is
\* the one obtained without that entry.
C15_UnknownEntriesIgnored ==
    spc = "done" =>
        \A i \in 1..Len(s_values) :
            Ignored(s_values, i) =>
                s_out = substitute_parameters_in_task(s_task, WithoutEntry(s_values, i),
                                                      s_params)

\* an unrecognized name and a name missing from originalParams, next to an
\* entry that does change the task
C15_Witness ==
    /\ spc = "done"
    /\ s_values = << <<"other", <<"b">>>>, <<"website", <<"a">>>>,
                     <<"search_term", <<>>>> >>
    /\ s_params = << <<"search_term", <<"a">>>> >>
    /\ s_task = <<"b","a","A">>
    /\ s_out = <<"b","A">>


---------------------------------------------------------------------------
(* Properties of the parameterised replay and of the drivers' failure      *)
(* handling, checked under SpecReplay                                      *)

\* the parameterised driver has loaded the flow and called the extractor
ExtractorCalled ==
    /\ rpc = "done" /\ rmode = "params"
    /\ ReplayedDoc.kind = "object"
    /\ HistoryOf(ReplayedDoc) # <<>>
    /\ rout.parameters # <<>>

\* C16: in parameterised replay, if the extractor returns an empty parameter
\* set for the loaded flow, the driver reports the error that points to
\* literal replay, solicits no value and never invokes the agent executor.
C16_NoParametersNoAgent ==
    /\ ExtractorCalled /\ rout.parameters[1] = <<>> =>
          /\ rout.report = "no_params"
          /\ rout.solicited = 0 /\ rinputs = <<>>
          /\ rout.agent_task = <<>> /\ rout.agent_runs = 0
    /\ rpc = "done" /\ rmode = "params" /\ ReplayedDoc.kind = "object"
       /\ HistoryOf(ReplayedDoc) # <<>>
       /\ extract_parameters_from_flow(ReplayedDoc) = [raised |-> FALSE, parameters |-> <<>>] =>
          ExtractorCalled /\ rout.parameters[1] = <<>>

\* a flow with a task and a recorded step, neither of which holds a parameter
C16_Witness ==
    /\ ExtractorCalled
    /\ ReplayedDoc.original_user_task = <<TASK_OPEN>>
    /\ ReplayedDoc.history = << <<StepObj(<<>>, <<Click>>)>> >>
    /\ rout.parameters[1] = <<>>
    /\ rout.report = "no_params"

\* the driver has reached the substitution of line 167
SubstitutionReached == ExtractorCalled /\ rout.param_values # <<>>

\* the value set has exactly the extracted names as keys, in their order
SameNames(values, params) ==
    /\ Len(values) = Len(params)
    /\ \A i \in 1..Len(params) : values[i][1] = params[i][1]

\* C17 (as amended): the value set passed to substitution has exactly the
\* extracted parameter names as keys; for each name the value is the
\* caller's input with surrounding whitespace trimmed when the input is
\* non-blank, and the extracted default when the caller supplies nothing.
C17_TrimmedInputOrDefault ==
    SubstitutionReached =>
        LET values == rout.param_values[1]
            params == rout.parameters[1]
        IN  /\ SameNames(values, params)
            /\ Len(rinputs) = Len(params)
            /\ \A i \in 1..Len(params) :
                /\ Strip(rinputs[i]) # <<>> => values[i][2] = Strip(rinputs[i])
                /\ rinputs[i] = <<>> => values[i][2] = params[i][2]

\* two parameters: a padded value typed for the first, nothing for the second
C17_Witness ==
    /\ SubstitutionReached
    /\ Len(rout.parameters[1]) = 2
    /\ rinputs = << <<" ","d","o","g","s"," ">>, <<>> >>
    /\ rout.param_values[1][1][2] = DOGS
    /\ rout.param_values[1][2][2] = rout.parameters[1][2][2]
    /\ rout.agent_runs = 1

\* C17 (as stated): for each name the value is the caller's input when it is
\* non-blank and the extracted default when the caller supplies nothing.
C17_InputOrDefault ==
    SubstitutionReached =>
        LET values == rout.param_values[1]
            params == rout.parameters[1]
        IN  /\ SameNames(values, params)
            /\ Len(rinputs) = Len(params)
            /\ \A i \in 1..Len(params) :
                /\ Strip(rinputs[i]) # <<>> => values[i][2] = rinputs[i]
                /\ rinputs[i] = <<>> => values[i][2] = params[i][2]

\* what a driver that has returned to its caller can have reported
Reports == {"none", "not_found", "invalid_json", "no_history", "no_params", "exception"}

\* C18: whatever the outcome of a replay (missing file, invalid JSON, empty
\* history, no parameters, agent executor raising, or success), both drivers
\* return to their caller without raising and leave every document of the
\* flow store as it was.
C18_ReplayNeverRaisesNorWrites ==
    /\ rpc = "done" => rout.report \in Reports /\ store = store0
    /\ rpc = "done" /\ rout.agent_runs = 1 => rout.report \in {"none", "exception"}

\* the agent executor has raised in a parameterised replay, next to a file
\* of the store that is valid JSON but no object
C18_Witness ==
    /\ rpc = "done" /\ rmode = "params"
    /\ rout.agent_runs = 1
    /\ rout.report = "exception"
    /\ \E n \in FlowNames : store0[n].kind = "nonobject"
    /\ store = store0


---------------------------------------------------------------------------
(* Properties of the manual converter, checked under SpecManual *)

\* the flow that stop_recording has saved
SavedFlow == store[mname]

SavedSteps == SavedFlow.history[1]

\* the value an action holds under a parameter name
ParamOf(a, name) == a.params[CHOOSE k \in 1..Len(a.params) : a.params[k][1] = name][2]

\* action a is the one the claim assigns to event e
ActionFor(a, e) ==
    CASE e.type = "navigation" ->
            a.type = "go_to_url" /\ ParamOf(a, "url") = e.url
      [] e.type = "click" ->
            a.type = "click_element_by_index"
      [] e.type = "input" ->
            /\ a.type = "input_text"
            /\ ParamOf(a, "text") = e.data.value
            /\ ParamOf(a, "clear_existing") = TRUE

C20_DescriptionStepsAndTerminalFlag ==
    mpc = "saved" =>
        LET converted == convert_to_browser_use_actions(cdp_events)
        IN  /\ SavedFlow.original_user_task = <<mtask>>
            /\ Len(SavedSteps) = Len(converted)
            /\ \A i \in 1..Len(converted) :
                /\ SavedSteps[i].model_output.action = <<converted[i]>>
                /\ Len(SavedSteps[i].result) = 1
                /\ SavedSteps[i].result[1].is_done = (i = Len(converted))

\* [navigation, click, input] has given 3 steps with is_done false, false, true
C20_Witness ==
    /\ mpc = "saved"
    /\ Len(cdp_events) = 3
    /\ cdp_events[1].type = "navigation"
    /\ cdp_events[2].type = "click"
    /\ cdp_events[3].type = "input"
    /\ Len(SavedSteps) = 3
    /\ ~SavedSteps[1].result[1].is_done
    /\ ~SavedSteps[2].result[1].is_done
    /\ SavedSteps[3].result[1].is_done
    /\ SavedFlow.original_user_task = <<TASK_OPEN>>


---------------------------------------------------------------------------
(* Properties of the flow routes, checked under SpecStore *)

StoredNames == {n \in FlowNames : store[n].kind # "absent"}

\* C21: after any sequence of saves (overwrites included) and deletes, the
\* flow list holds one summary per stored flow, ordered newest-created first.
C21_OnePerFlowNewestCreatedFirst ==
    listing.taken =>
        /\ {listing.flows[i].name : i \in 1..Len(listing.flows)} = StoredNames
        /\ Len(listing.flows) = Cardinality(StoredNames)
        /\ \A i, j \in 1..Len(listing.flows) :
              i < j => fstat[listing.flows[i].name].born >= fstat[listing.flows[j].name].born

\* the steps of a DELETE request handler
DeleteArrives(d) == dels[d].pc = "idle" /\ dels'[d].pc # "idle"

DeleteAnswers(d, status) == dels[d].status # status /\ dels'[d].status = status

\* C22: deleting a flow name that has no stored document fails with the
\* not-found outcome and changes nothing; deleting an existing flow removes
\* only that document, and a second delete of the same name surfaces the
\* not-found outcome.
C22_DeleteNotFoundOrRemovesOne ==
    [][\A d \in Deleters :
          /\ DeleteArrives(d) /\ store[dels'[d].flow_name].kind = "absent" =>
                /\ dels'[d].pc = "done" /\ dels'[d].status = 404
                /\ store' = store
          /\ DeleteAnswers(d, 404) => store' = store
          /\ DeleteAnswers(d, 200) =>
                /\ store[dels[d].flow_name].kind # "absent"
                /\ store' = [store EXCEPT ![dels[d].flow_name] = [kind |-> "absent"]]
          /\ DeleteArrives(d)
             /\ (\E e \in Deleters : dels[e].status = 200
                                     /\ dels[e].flow_name = dels'[d].flow_name)
             /\ store[dels'[d].flow_name].kind = "absent" =>
                dels'[d].status = 404]_vars

\* a flow has been deleted while the other stayed, and a second delete of
\* the same name has been answered not found
C22_Witness ==
    /\ dels["d1"].pc = "done" /\ dels["d1"].status = 200
    /\ dels["d2"].pc = "done" /\ dels["d2"].status = 404
    /\ dels["d1"].flow_name = "demo" /\ dels["d2"].flow_name = "demo"
    /\ store["demo"].kind = "absent"
    /\ store["other"].kind = "object"


---------------------------------------------------------------------------
(* The recording window of a manual session, checked under SpecSession *)

\* C26: in a manual recording session every browser event (navigation, click
\* or input) delivered after recording has started and before the user ends
\* the session is appended to cdp_events and appears as a step of the saved
\* flow.
C26_DeliveredEventsAreSaved ==
    mpc \in {"saved", "closed"} =>
        /\ cdp_events = delivered
        /\ Len(SavedSteps) = Len(delivered)
        /\ \A i \in 1..Len(delivered) :
            /\ Len(SavedSteps[i].model_output.action) = 1
            /\ ActionFor(SavedSteps[i].model_output.action[1], delivered[i])


---------------------------------------------------------------------------
(* Order of the entries of newValues, checked under SpecSubst *)

\* the call replaces both recognized parameters, whose old values are
\* non-empty and neither a substring of the other
DisjointOldValues ==
    /\ Len(s_values) = 2
    /\ {s_values[1][1], s_values[2][1]} = {"website", "search_term"}
    /\ DictHas(s_params, "website") /\ DictHas(s_params, "search_term")
    /\ DictGet(s_params, "website") # <<>>
    /\ DictGet(s_params, "search_term") # <<>>
    /\ ~Contains(DictGet(s_params, "website"), DictGet(s_params, "search_term"))
    /\ ~Contains(DictGet(s_params, "search_term"), DictGet(s_params, "website"))

\* C23: when both the website and the search_term old values are non-empty
\* and neither is a substring of the other, the result of
\* substitute_parameters_in_task does not depend on the order in which the
\* two entries appear in newValues.
C23_OrderOfEntriesIrrelevant ==
    spc = "done" /\ DisjointOldValues =>
        s_out = substitute_parameters_in_task(s_task, <<s_values[2], s_values[1]>>,
                                              s_params)


---------------------------------------------------------------------------
(* The task handed to the agent in parameterised replay, checked under     *)
(* SpecReplay                                                               *)

\* C24: in parameterised replay of a flow whose original_user_task yields
\* parameter p under Strategy A, when the caller supplies a non-blank new
\* value v for p, the task string handed to the agent executor contains v.
C24_AgentTaskContainsNewValue ==
    SubstitutionReached /\ rout.agent_task # <<>>
    /\ StrategyA(ReplayedDoc) # <<>> /\ rout.parameters[1] = StrategyA(ReplayedDoc) =>
        \A i \in 1..Len(rinputs) :
            rinputs[i] # EOF /\ Strip(rinputs[i]) # <<>> =>
                Contains(rout.agent_task[1], Strip(rinputs[i]))


---------------------------------------------------------------------------
(* A recording run, checked under SpecRecord *)

\* the run has ended
RunEnded(p) == proc[p].pc = "exited"

\* C25: in a recording run (--save-flow) the flow document is written only
\* after the agent executor has returned a result, and it carries
\* original_user_task equal to the task entered for the recording; if the
\* agent executor raises, or the entered task is blank, nothing is written
\* to the flow store.
C25_SavedAfterRunWithEnteredTask ==
    /\ [][store' # store => \E p \in Reqs : proc[p].agent = "returned"]_vars
    /\ [](\A p \in Reqs :
            /\ RunEnded(p) /\ proc[p].agent = "returned" =>
                  /\ store[proc[p].flow_name].kind = "object"
                  /\ store[proc[p].flow_name].original_user_task = proc[p].task
                  /\ \A n \in FlowNames \ {proc[p].flow_name} : store[n] = store0[n]
            /\ RunEnded(p) /\ proc[p].agent = "raised" => store = store0
            /\ RunEnded(p) /\ proc[p].task # <<>> /\ Strip(proc[p].task[1]) = <<>> =>
                  store = store0 /\ proc[p].agent = "none")

\* a run with a padded task has replaced an earlier flow of the same name
C25_Witness ==
    /\ RunEnded(1)
    /\ proc[1].agent = "returned"
    /\ proc[1].task = << <<" ">> \o TASK_CATS \o <<" ">> >>
    /\ store0[proc[1].flow_name].kind = "object"
    /\ store[proc[1].flow_name] # store0[proc[1].flow_name]
    /\ store[proc[1].flow_name].original_user_task = proc[1].task


---------------------------------------------------------------------------
(* stop_recording against the end of the recording thread, checked under   *)
(* Spec and SpecLive                                                        *)

\* C27: under every interleaving of stop_recording with the worker thread's
\* completion, stop_recording completes without raising: it never calls
\* terminate, wait or kill on a recording_process that has been cleared
\* after its check.
C27_StopRecordingNeverRaises ==
    \A r \in Reqs : req[r].op = "stop" => req[r].result # "raised"

\* the subprocess of recording w has ended, or was never spawned, and the
\* recording thread has not yet run the statement of its cleanup that sets
\* is_recording
SubprocessGone(w) ==
    \/ worker[w].pc \in {"communicate", "waiting", "finally"}
       /\ proc[w].pc \in {"exited", "killed"}
    \/ worker[w].pc = "finally" /\ proc[w].pc = "unborn"

\* a well-formed start request arrives at request thread r and is accepted
AcceptedStart(r) ==
    /\ Arrives(r)
    /\ req'[r].op = "start"
    /\ req'[r].pc = "sr_flag"

===========================================================================


